---- MODULE Spec2Model ----
(***************************************************************************)
(* Financial-Insight-Engine: the document parser of                        *)
(* backend/app/services/parser_service.py as a state machine.              *)
(*                                                                         *)
(* A text is a sequence of lines.  A line is the lexical content the       *)
(* parser's regular expressions look at:                                   *)
(*   head   the section-heading phrase the line starts with (kind and      *)
(*          index in that kind's phrase list), or NoHead                   *)
(*   words  the words before the numeric tokens, case-folded               *)
(*   toks   the numeric tokens (\(?[0-9][0-9,\.()]*\)?), in order          *)
(*   after  the words after the numeric tokens                             *)
(* Words and tokens stand one blank apart; lines carry no leading or       *)
(* trailing blanks and are joined by "\n", which gives every line, block   *)
(* and text its number of characters.                                      *)
(* An optional value (Python's None) is a sequence of length 0 or 1.       *)
(***************************************************************************)
EXTENDS Integers, Sequences, FiniteSets, TLC

VARIABLES doc, pc, scale, unit_label, sections, parsed, step4, ran, raised, seen,
          trend, req, fname, call

vars == <<doc, pc, scale, unit_label, sections, parsed, step4, ran, raised, seen, trend,
         req, fname, call>>

\* What lives outside one call of parse_financial_document: seen is an
\* earlier call the caller remembers, with its input and its outcome; trend
\* is a call of aggregate_periods, req a request to POST /analyze, fname a
\* call of extract_company_name, call a call of one of the helper functions.
env == <<seen, trend, req, fname, call>>

None == <<>>
Some(v) == <<v>>

Abs(n) == IF n < 0 THEN -n ELSE n
Max(a, b) == IF a >= b THEN a ELSE b

\* ------------------------------------------------------------------------
\* Bounds of the model
\* ------------------------------------------------------------------------
MaxLines == 3

\* ------------------------------------------------------------------------
\* Number Normalizer (preprocessing_service, spec section 4.1)
\* ------------------------------------------------------------------------
\* A numeric token: its text, the number its digits spell once the
\* thousands separators are removed, whether it is wrapped in parentheses,
\* and whether the digits form one number ("1.2.3" does not).  glue holds
\* the two tokens of a token that is two comma-grouped numbers run together
\* ("32,52631,481"), and is empty for every other token.
Tok(s, v) == [text |-> s, digits |-> v, paren |-> FALSE, ok |-> TRUE, glue |-> <<>>]
BadTok(s) == [text |-> s, digits |-> 0, paren |-> FALSE, ok |-> FALSE, glue |-> <<>>]
ParenTok(s, v) == [text |-> s, digits |-> v, paren |-> TRUE, ok |-> TRUE, glue |-> <<>>]
GlueTok(s, v, g) == [text |-> s, digits |-> v, paren |-> FALSE, ok |-> TRUE, glue |-> g]

\* parse_number: a float, negative for a parenthesised token, or None.
parse_number(tok) ==
    IF ~tok.ok THEN None
    ELSE IF tok.paren THEN Some(0 - tok.digits)
    ELSE Some(tok.digits)

\* ------------------------------------------------------------------------
\* Texts
\* ------------------------------------------------------------------------
NoHead == [kind |-> "none", phrase |-> 0]
Heading(k, p) == [kind |-> k, phrase |-> p]

\* section_terms, in dictionary order, with the number of phrases of each.
SectionKinds == <<"balance_sheet", "pnl", "cash_flow", "changes_in_equity">>
PhraseCount(k) ==
    CASE k = "balance_sheet" -> 4
      [] k = "pnl" -> 6
      [] k = "cash_flow" -> 4
      [] OTHER -> 3

Line(h, w, t, a) == [head |-> h, words |-> w, toks |-> t, after |-> a]

HeadingLines ==
    { Line(Heading("balance_sheet", 1),
           <<"BALANCE", "SHEET", "AS", "AT", "THE", "END", "OF", "THE", "FINANCIAL",
             "YEAR", "UNDER", "REVIEW">>, <<>>, <<>>),
      Line(Heading("pnl", 1),
           <<"PROFIT", "AND", "LOSS", "ACCOUNT", "FOR", "THE", "FINANCIAL", "YEAR",
             "UNDER", "REVIEW">>, <<>>, <<>>),
      Line(Heading("cash_flow", 1), <<"CASH", "FLOW">>, <<>>, <<>>) }

DataLines ==
    { Line(NoHead, <<"TOTAL", "ASSETS">>, <<Tok("1,000", 1000)>>, <<>>),
      Line(NoHead, <<"TOTAL", "ASSETS">>, <<Tok("50", 50)>>, <<>>),
      Line(NoHead, <<"MUMBAI", "TOTAL", "ASSETS">>, <<Tok("1,000", 1000)>>, <<>>),
      Line(NoHead, <<"TOTAL", "EQUITY">>, <<Tok("1,000", 1000)>>, <<>>),
      Line(NoHead, <<"TOTAL", "EQUITY">>, <<BadTok("1.2.3")>>, <<>>),
      Line(NoHead, <<"TOTAL", "LIABILITIES">>, <<Tok("1,000", 1000)>>, <<>>),
      Line(NoHead, <<"REVENUE", ":">>, <<Tok("900", 900), Tok("1,000", 1000)>>, <<>>),
      Line(NoHead, <<"REVENUE", "FOR", "THE", "YEAR">>, <<Tok("900", 900)>>, <<>>),
      Line(NoHead, <<"REVENUE">>, <<Tok("900", 900)>>, <<"RESTATED">>),
      Line(NoHead, <<"RS", "IN", "THOUSAND">>, <<>>, <<>>),
      Line(NoHead, <<"THE", "COMPANY", "CONTINUED", "ITS", "CSR", "PROGRAMMES", "IN",
                     "THE", "YEAR", "UNDER", "REVIEW">>, <<>>, <<>>) }

Lines == HeadingLines \cup DataLines

Texts == UNION { [1..n -> Lines] : n \in 0..MaxLines }

Docs == { [lines |-> t, tables |-> None] : t \in Texts }

\* detect_document_scale: (multiplier, label) of the unit declaration the
\* text carries; (1, "units") when it carries none.
Mentions(ls, w) ==
    \E i \in 1..Len(ls) : \E j \in 1..Len(ls[i].words) : ls[i].words[j] = w

detect_document_scale(ls) ==
    CASE Mentions(ls, "CRORE") -> <<10000000, "crores">>
      [] Mentions(ls, "LAKH") -> <<100000, "lakhs">>
      [] Mentions(ls, "THOUSAND") -> <<1000, "thousands">>
      [] OTHER -> <<1, "units">>

\* Character counts: the words and tokens of a line stand one blank apart,
\* and line i of a text starts after the lines before it and their newlines.
RECURSIVE WordChars(_)
WordChars(ws) == IF ws = <<>> THEN 0 ELSE Len(Head(ws)) + WordChars(Tail(ws))

RECURSIVE TokChars(_)
TokChars(ts) == IF ts = <<>> THEN 0 ELSE Len(Head(ts).text) + TokChars(Tail(ts))

LineLen(l) ==
    LET n == Len(l.words) + Len(l.toks) + Len(l.after)
    IN  WordChars(l.words) + TokChars(l.toks) + WordChars(l.after)
        + (IF n = 0 THEN 0 ELSE n - 1)

RECURSIVE SumLen(_)
SumLen(ls) == IF ls = <<>> THEN 0 ELSE LineLen(Head(ls)) + SumLen(Tail(ls))

TextLen(ls) == IF ls = <<>> THEN 0 ELSE SumLen(ls) + (Len(ls) - 1)

LineStart(ls, i) == IF i = 1 THEN 0 ELSE TextLen(SubSeq(ls, 1, i - 1)) + 1

\* ------------------------------------------------------------------------
\* Section Splitter
\* ------------------------------------------------------------------------
\* The phrases of kind k that match somewhere in the text (re.search of the
\* tolerant pattern of each phrase).
MatchingPhrases(ls, k) ==
    { p \in 1..PhraseCount(k) : \E i \in 1..Len(ls) : ls[i].head = Heading(k, p) }

MinOf(S) == CHOOSE m \in S : \A n \in S : m <= n

\* The first line on which any phrase of kind k matches.
EarliestMatchLine(ls, k) ==
    MinOf({ i \in 1..Len(ls) : ls[i].head.kind = k })

\* The line on which the first phrase of kind k, in phrase-list order, first
\* matches.
FirstMatchLine(ls, k) ==
    LET p == MinOf(MatchingPhrases(ls, k))
    IN  MinOf({ i \in 1..Len(ls) : ls[i].head = Heading(k, p) })

\* positions: the kinds a phrase of which matched.
DetectedKinds(ls) ==
    { SectionKinds[j] : j \in { n \in 1..Len(SectionKinds) :
                                  MatchingPhrases(ls, SectionKinds[n]) # {} } }

\* sorted(positions.items(), key=position): kinds by the line they start on.
RECURSIVE SortedKinds(_, _)
SortedKinds(ls, S) ==
    IF S = {} THEN <<>>
    ELSE LET k == CHOOSE a \in S :
                      \A b \in S : FirstMatchLine(ls, a) <= FirstMatchLine(ls, b)
         IN  <<k>> \o SortedKinds(ls, S \ {k})

\* text[start:end].strip() for a slice that runs from the start of line i to
\* the start of line j: lines i..j-1, without the closing newline.
Block(ls, i, j) ==
    LET sub == SubSeq(ls, i, j - 1)
    IN  [lines |-> sub, len |-> TextLen(sub)]

MinBlockLen == 50

\* A splitter that keeps every block longer than a few characters.
KeepBlockLoose(b) == b.len > 5

KeepBlock(b) == b.len > MinBlockLen

RECURSIVE SliceSections(_, _, _)
SliceSections(ls, sorted, i) ==
    IF i > Len(sorted) THEN <<>>
    ELSE LET first == FirstMatchLine(ls, sorted[i])
             last == IF i + 1 <= Len(sorted)
                     THEN FirstMatchLine(ls, sorted[i + 1])
                     ELSE Len(ls) + 1
             b == Block(ls, first, last)
             rest == SliceSections(ls, sorted, i + 1)
         IN  IF KeepBlock(b)
             THEN <<[name |-> sorted[i], start |-> LineStart(ls, first), block |-> b]>>
                  \o rest
             ELSE rest

\* The splitter without its whole-text fallback: no heading, empty map.
SplitNoFallback(ls) ==
    IF ls = <<>> THEN <<>>
    ELSE SliceSections(ls, SortedKinds(ls, DetectedKinds(ls)), 1)

\* The section map, as the sequence of its entries in insertion order.
_split_into_sections(ls) ==
    IF ls = <<>> THEN <<>>
    ELSE IF DetectedKinds(ls) = {}
    THEN <<[name |-> "balance_sheet", start |-> 0,
            block |-> [lines |-> ls, len |-> TextLen(ls)]]>>
    ELSE SliceSections(ls, SortedKinds(ls, DetectedKinds(ls)), 1)

HasSection(m, k) == \E i \in 1..Len(m) : m[i].name = k

EmptyBlock == [lines |-> <<>>, len |-> 0]

\* sections.get(k, ""): the block of kind k, the empty text when absent.
GetSection(m, k) ==
    IF HasSection(m, k)
    THEN m[CHOOSE i \in 1..Len(m) : m[i].name = k].block
    ELSE EmptyBlock

\* ------------------------------------------------------------------------
\* Label normalization
\* ------------------------------------------------------------------------
\* A raw label is a sequence of words; a numeric token left inside it is
\* "#", a punctuation mark is itself.
NonWord == {"#", ":", ";", ",", ".", "-"}

RECURSIVE StripLeading(_)
StripLeading(name) ==
    IF name # <<>> /\ Head(name) \in NonWord THEN StripLeading(Tail(name)) ELSE name

RECURSIVE StripTrailing(_)
StripTrailing(name) ==
    IF name # <<>> /\ name[Len(name)] \in NonWord
    THEN StripTrailing(SubSeq(name, 1, Len(name) - 1))
    ELSE name

\* The leading and trailing runs of non-word characters and digits are
\* removed.  The cut at 120 characters never applies to a label taken from a
\* line of at most 60 characters.
_normalize_item_name(name) == StripTrailing(StripLeading(name))

\* "phr in s": phr occurs in s as consecutive words.
ContainsPhrase(s, phr) ==
    \E i \in 1..(Len(s) - Len(phr) + 1) : SubSeq(s, i, i + Len(phr) - 1) = phr

Scaled(v, sc) == IF v = None THEN None ELSE Some(v[1] * sc)

\* ------------------------------------------------------------------------
\* Line-item extractor: table-like strategy (balance sheet)
\* ------------------------------------------------------------------------
NoiseMarkers ==
    { <<"DIN">>, <<"PARTNER">>, <<"DIRECTOR">>, <<"CHARTERED", "ACCOUNTANTS">>,
      <<"MUMBAI">>, <<"LLP">>, <<"CFO">>, <<"SECRETARY">> }

\* The search is by substring and ignores case.  Upper is the upper-case
\* form of a word of the texts, Embedded the markers that occur inside a
\* longer word of the texts.
Upper(w) ==
    CASE w = "Director" -> "DIRECTOR"
      [] w = "Mumbai" -> "MUMBAI"
      [] w = "Notes" -> "NOTES"
      [] w = "Purchase" -> "PURCHASE"
      [] w = "Capex" -> "CAPEX"
      [] w = "Operating" -> "OPERATING"
      [] OTHER -> w

Embedded(w) ==
    CASE w = "INCLUDING" -> { <<"DIN">> }
      [] OTHER -> {}

\* A filter that lets every fragment through.
NeverNoise(l) == FALSE

IsNoise(l) ==
    LET ws == l.words \o l.after
    IN  \E m \in NoiseMarkers :
            \/ ContainsPhrase([i \in 1..Len(ws) |-> Upper(ws[i])], m)
            \/ \E i \in 1..Len(ws) : m \in Embedded(ws[i])

\* The tail match: the one or two numeric tokens that end the fragment.
HasTail(l) == l.toks # <<>> /\ l.after = <<>>

Hashes(n) == [i \in 1..n |-> "#"]

\* vals and the raw name of a fragment that holds numeric tokens.
FragVals(l) ==
    LET n == Len(l.toks)
        v == IF HasTail(l)
             THEN SubSeq(l.toks, Max(1, n - 1), n)
             ELSE SubSeq(l.toks, 1, IF n >= 2 THEN 2 ELSE n)
    IN  IF Len(v) = 1 /\ v[1].glue # <<>>
        THEN v[1].glue
        ELSE v

FragName(l) ==
    IF HasTail(l)
    THEN l.words \o Hashes(Max(0, Len(l.toks) - 2))
    ELSE l.words \o l.after

\* A filter that drops nothing.
NoPostFilter(name, curr) == FALSE

\* name.lower().startswith(("note", "annexure")): the first words of the
\* texts that begin so, in upper case.
NoteWords == {"NOTE", "NOTES", "ANNEXURE"}

PostFilterDrops(name, curr) ==
    \/ (name # <<>> /\ Upper(name[1]) \in NoteWords)
    \/ (curr # None /\ Abs(curr[1]) < 100 /\ Len(name) < 3)

\* A confidence tag that ignores whether the value parsed.
ConfidenceAlwaysHigh(curr) == "high"

Confidence(curr) == IF curr # None THEN "high" ELSE "low"

\* The items one fragment contributes: none or one.
FragItems(l, sc) ==
    IF IsNoise(l) \/ l.toks = <<>> THEN <<>>
    ELSE LET vals == FragVals(l)
             name == _normalize_item_name(FragName(l))
             curr == Scaled(parse_number(vals[1]), sc)
             prev == IF Len(vals) >= 2 THEN Scaled(parse_number(vals[2]), sc) ELSE None
         IN  IF PostFilterDrops(name, curr) THEN <<>>
             ELSE <<[item |-> name, current_period |-> curr,
                     previous_period |-> prev, confidence |-> Confidence(curr)]>>

RECURSIVE TableItems(_, _)
TableItems(ls, sc) ==
    IF ls = <<>> THEN <<>> ELSE FragItems(Head(ls), sc) \o TableItems(Tail(ls), sc)

_extract_table_like_section(block, sc) == TableItems(block.lines, sc)

\* ------------------------------------------------------------------------
\* Line-item extractor: key-value strategy
\* ------------------------------------------------------------------------
EmptyMap == <<>>

\* A store that keeps the entry a key already has.
PutIfAbsent(m, k, v) == [x \in (DOMAIN m) \cup {k} |-> IF x \in DOMAIN m THEN m[x] ELSE v]

Put(m, k, v) == [x \in (DOMAIN m) \cup {k} |-> IF x = k THEN v ELSE m[x]]

\* (.{3,200}?)\s+(num)(?:\s+(num))?\s*$ : the shortest label of at least
\* three characters that leaves one or two numeric tokens to end the line.
\* KvTail is how many tokens the match leaves, 0 when the line does not match.
LabelChars(l, k) ==
    LET pre == SubSeq(l.toks, 1, Len(l.toks) - k)
        n == Len(l.words) + Len(pre)
    IN  WordChars(l.words) + TokChars(pre) + (IF n = 0 THEN 0 ELSE n - 1)

KvTail(l) ==
    IF l.toks = <<>> \/ l.after # <<>> THEN 0
    ELSE IF Len(l.toks) >= 2 /\ LabelChars(l, 2) >= 3 THEN 2
    ELSE IF LabelChars(l, 1) >= 3 THEN 1
    ELSE 0

RECURSIVE KvFold(_, _, _)
KvFold(ls, sc, out) ==
    IF ls = <<>> THEN out
    ELSE LET l == Head(ls)
             n == Len(l.toks)
             k == KvTail(l)
             key == _normalize_item_name(l.words \o Hashes(n - k))
             val1 == Scaled(parse_number(l.toks[n - k + 1]), sc)
             val2 == IF k = 2 THEN Scaled(parse_number(l.toks[n]), sc) ELSE None
         IN  IF k > 0
             THEN KvFold(Tail(ls), sc, Put(out, key, [value |-> val1, previous |-> val2]))
             ELSE KvFold(Tail(ls), sc, out)

_extract_simple_kv(block, sc) == KvFold(block.lines, sc, EmptyMap)

\* ------------------------------------------------------------------------
\* Document-wide fallbacks
\* ------------------------------------------------------------------------
\* The text as the regular expressions of the fallbacks scan it: one run of
\* words and numeric tokens, line after line.
WordEl(w) == [isTok |-> FALSE, w |-> w, tok |-> BadTok("")]
TokEl(t) == [isTok |-> TRUE, w |-> "#", tok |-> t]

LineStream(l) ==
    [i \in 1..Len(l.words) |-> WordEl(l.words[i])]
    \o [i \in 1..Len(l.toks) |-> TokEl(l.toks[i])]
    \o [i \in 1..Len(l.after) |-> WordEl(l.after[i])]

RECURSIVE Stream(_)
Stream(ls) == IF ls = <<>> THEN <<>> ELSE LineStream(Head(ls)) \o Stream(Tail(ls))

\* The words phr stand at positions i..i+Len(phr)-1 of the stream.
PhraseAt(st, i, phr) ==
    /\ i >= 1
    /\ i + Len(phr) - 1 <= Len(st)
    /\ \A j \in 1..Len(phr) : ~st[i + j - 1].isTok /\ st[i + j - 1].w = phr[j]

\* float(m.group(1).replace(",", "").replace("(", "").replace(")", "")):
\* the digits of the token, its parentheses dropped; a ValueError for a
\* token that is no number.
FloatOf(tok) == IF tok.ok THEN Some(tok.digits) ELSE None

FallbackPatterns ==
    << [label |-> <<"TOTAL", "ASSETS">>, phrases |-> {<<"TOTAL", "ASSETS">>}],
       [label |-> <<"TOTAL", "EQUITY">>, phrases |-> {<<"TOTAL", "EQUITY">>}],
       [label |-> <<"TOTAL", "LIABILITIES">>,
        phrases |-> {<<"TOTAL", "LIABILITIES">>, <<"TOTAL", "CURRENT", "LIABILITIES">>}],
       [label |-> <<"REVENUE">>,
        phrases |-> {<<"REVENUE">>, <<"TOTAL", "INCOME">>,
                     <<"REVENUE", "FROM", "OPERATIONS">>}],
       [label |-> <<"PROFIT", "FOR", "THE", "PERIOD">>,
        phrases |-> {<<"PROFIT", "FOR", "THE", "PERIOD">>}] >>

\* label.*?(token): the first numeric token after the leftmost occurrence of
\* one of the phrases, anywhere later in the text; None when nothing matches.
LabelThenToken(st, phrases) ==
    LET starts == { i \in 1..Len(st) :
                      \E phr \in phrases :
                          /\ PhraseAt(st, i, phr)
                          /\ \E t \in (i + Len(phr))..Len(st) : st[t].isTok }
    IN  IF starts = {} THEN None
        ELSE LET i == MinOf(starts)
             IN  Some(st[MinOf({ t \in (i + 1)..Len(st) : st[t].isTok })].tok)

RECURSIVE FallbackFold(_, _, _)
FallbackFold(st, i, ex) ==
    IF i > Len(FallbackPatterns) THEN ex
    ELSE LET pat == FallbackPatterns[i]
             m == LabelThenToken(st, pat.phrases)
             num == IF m = None THEN None ELSE FloatOf(m[1])
         IN  IF num = None THEN FallbackFold(st, i + 1, ex)
             ELSE IF i <= 3
             THEN FallbackFold(st, i + 1,
                      [ex EXCEPT !.balance_sheet =
                          Append(@, [item |-> pat.label, current_period |-> num,
                                     confidence |-> "high"])])
             ELSE IF i = 4
             THEN FallbackFold(st, i + 1,
                      [ex EXCEPT !.pnl = Put(@, <<"Revenue">>, [value |-> num])])
             ELSE FallbackFold(st, i + 1,
                      [ex EXCEPT !.pnl =
                          Put(@, <<"Profit for the Period">>, [value |-> num])])

\* The document-wide fallback extractor.  It takes no scale.
_extract_from_text(ls) ==
    FallbackFold(Stream(ls), 1,
                 [balance_sheet |-> <<>>, pnl |-> EmptyMap, cash_flow |-> EmptyMap])

PnlPatterns ==
    << [label |-> <<"Revenue">>,
        phrases |-> {<<"TOTAL", "INCOME">>, <<"TOTAL", "REVENUE">>,
                     <<"REVENUE", "FROM", "OPERATIONS">>, <<"REVENUE">>}],
       [label |-> <<"Profit for the Period">>,
        phrases |-> {<<"PROFIT", "FOR", "THE", "PERIOD">>, <<"NET", "PROFIT">>,
                     <<"PROFIT", "AFTER", "TAX">>, <<"PAT">>}],
       [label |-> <<"Profit Before Tax">>,
        phrases |-> {<<"PROFIT", "BEFORE", "TAX">>, <<"PBT">>}] >>

Separators == {":", "-"}

\* label\s*[:\-]?\s*(token): the token at t directly follows one of the
\* phrases, one separator at most standing between them.
DirectlyFollows(st, t, phrases) ==
    /\ st[t].isTok
    /\ \E phr \in phrases :
          \/ PhraseAt(st, t - Len(phr), phr)
          \/ /\ t >= 2
             /\ ~st[t - 1].isTok
             /\ st[t - 1].w \in Separators
             /\ PhraseAt(st, t - 1 - Len(phr), phr)

LabelDirectToken(st, phrases) ==
    LET ts == { t \in 1..Len(st) : DirectlyFollows(st, t, phrases) }
    IN  IF ts = {} THEN None ELSE Some(st[MinOf(ts)].tok)

RECURSIVE PnlFold(_, _, _, _)
PnlFold(st, sc, i, out) ==
    IF i > Len(PnlPatterns) THEN out
    ELSE LET m == LabelDirectToken(st, PnlPatterns[i].phrases)
             num == IF m = None THEN None ELSE parse_number(m[1])
         IN  IF num = None THEN PnlFold(st, sc, i + 1, out)
             ELSE PnlFold(st, sc, i + 1,
                      Put(out, PnlPatterns[i].label, [value |-> Some(num[1] * sc)]))

\* The document-wide P&L fallback.
_extract_pnl_from_text(ls, sc) ==
    IF ls = <<>> THEN EmptyMap ELSE PnlFold(Stream(ls), sc, 1, EmptyMap)

\* ------------------------------------------------------------------------
\* Balance validation
\* ------------------------------------------------------------------------
\* find_item: the first balance-sheet item whose label holds key.
FindItem(bs, key) ==
    LET hits == { i \in 1..Len(bs) : bs[i].item # <<>> /\ ContainsPhrase(bs[i].item, key) }
    IN  IF hits = {} THEN None ELSE Some(bs[MinOf(hits)])

\* it.get("current_period", 0) of a found item, 0 for a side not found.
SideValue(found) == IF found = None THEN Some(0) ELSE found[1].current_period

\* max(1.0, 0.001 * abs(assets)) as the greatest whole number not above it:
\* the values compared with it are whole numbers.
Tolerance(assets) == Max(1, Abs(assets) \div 1000)

\* The outcome of _validate_basic_balance: "ok", or the exception it raises.
_validate_basic_balance(bs) ==
    LET total_assets == FindItem(bs, <<"TOTAL", "ASSETS">>)
        total_eq == FindItem(bs, <<"TOTAL", "EQUITY">>)
        total_liab == FindItem(bs, <<"TOTAL", "LIABILITIES">>)
        assets == total_assets[1].current_period
        eq == SideValue(total_eq)
        liab == SideValue(total_liab)
    IN  IF total_assets = None \/ (total_eq = None /\ total_liab = None) THEN "ok"
        ELSE IF eq = None \/ liab = None THEN "TypeError"
        ELSE IF assets # None /\ Abs(assets[1] - (eq[1] + liab[1])) > Tolerance(assets[1])
        THEN "ValueError"
        ELSE "ok"

\* ------------------------------------------------------------------------
\* Document Parser (orchestrator): parse_financial_document, step by step
\* ------------------------------------------------------------------------
NoSummary == "No financial statements detected"

\* A short-circuit test that looks only at whether the map is empty.
ShortCircuitIfNoSection(m) == m = <<>>

\* not any([sections.get("balance_sheet"), sections.get("pnl")])
ShortCircuitCond(m) ==
    ~(GetSection(m, "balance_sheet").len > 0 \/ GetSection(m, "pnl").len > 0)

\* A merge that prefers what the fallback found.
FillFromFallback(cur, fb) == IF fb # <<>> THEN fb ELSE cur

\* parsed["sections"].get(sec) or fallback.get(sec, {})
\* A variant that drops the tables it was given.
NoTables(tables) == <<>>

\* tables or []
TablesOrEmpty(tables) == IF tables = None \/ tables[1] = <<>> THEN <<>> ELSE tables[1]

FillEmpty(cur, fb) == IF cur # <<>> THEN cur ELSE fb

\* A validation step with no try/except around it.
PropagateValidation(outcome) ==
    [warning |-> None, raised |-> IF outcome = "ok" THEN "none" ELSE outcome]

\* try: _validate_basic_balance(parsed) / except Exception as e:
\* parsed["validation_warning"] = str(e)
CatchValidation(outcome) ==
    [warning |-> CASE outcome = "ValueError" -> Some("Balance mismatch")
                   [] outcome = "TypeError" -> Some("unsupported operand type(s)")
                   [] OTHER -> None,
     raised |-> "none"]

Init ==
    /\ doc \in Docs
    /\ pc = "start"
    /\ scale = 1
    /\ unit_label = "units"
    /\ sections = <<>>
    /\ parsed = None
    /\ step4 = None
    /\ ran = <<>>
    /\ raised = "none"
    /\ seen = None
    /\ trend = None
    /\ req = None
    /\ fname = None
    /\ call = None

\* if not cleaned_text: raise HTTPException(400)
CheckInput ==
    /\ pc = "start"
    /\ IF doc.lines = <<>>
       THEN /\ raised' = "HTTP_400_BAD_REQUEST"
            /\ pc' = "done"
       ELSE /\ raised' = raised
            /\ pc' = "scale"
    /\ UNCHANGED <<doc, scale, unit_label, sections, parsed, step4, ran>>
    /\ UNCHANGED env

DetectScale ==
    /\ pc = "scale"
    /\ scale' = detect_document_scale(doc.lines)[1]
    /\ unit_label' = detect_document_scale(doc.lines)[2]
    /\ ran' = Append(ran, "scale")
    /\ pc' = "split"
    /\ UNCHANGED <<doc, sections, parsed, step4, raised>>
    /\ UNCHANGED env

Split ==
    /\ pc = "split"
    /\ sections' = _split_into_sections(doc.lines)
    /\ ran' = Append(ran, "split")
    /\ pc' = "check"
    /\ UNCHANGED <<doc, scale, unit_label, parsed, step4, raised>>
    /\ UNCHANGED env

ShortCircuit ==
    /\ pc = "check"
    /\ ShortCircuitCond(sections)
    /\ parsed' = Some([meta |-> [unit |-> "units"], scale |-> 1, sections |-> EmptyMap,
                       tables |-> TablesOrEmpty(doc.tables),
                       kpis |-> Some(NoSummary), validation_warning |-> None])
    /\ ran' = Append(ran, "short_circuit")
    /\ pc' = "done"
    /\ UNCHANGED <<doc, scale, unit_label, sections, step4, raised>>
    /\ UNCHANGED env

Extract ==
    /\ pc = "check"
    /\ ~ShortCircuitCond(sections)
    /\ LET secs == [balance_sheet |->
                        _extract_table_like_section(GetSection(sections, "balance_sheet"), scale),
                    pnl |-> _extract_simple_kv(GetSection(sections, "pnl"), scale),
                    cash_flow |-> _extract_simple_kv(GetSection(sections, "cash_flow"), scale),
                    changes_in_equity |->
                        _extract_simple_kv(GetSection(sections, "changes_in_equity"), scale)]
       IN  /\ parsed' = Some([meta |-> [unit |-> unit_label], scale |-> scale,
                              sections |-> secs, tables |-> TablesOrEmpty(doc.tables),
                              kpis |-> None, validation_warning |-> None])
           /\ step4' = Some(secs)
    /\ ran' = Append(ran, "extract")
    /\ pc' = "pnl_fb"
    /\ UNCHANGED <<doc, scale, unit_label, sections, raised>>
    /\ UNCHANGED env

\* A P&L fallback that waits for a balance sheet: it runs only when the
\* section-based balance sheet found something.
PnlFallbackIfBalanceSheet ==
    /\ pc = "pnl_fb"
    /\ IF parsed[1].sections.pnl = <<>> /\ parsed[1].sections.balance_sheet # <<>>
       THEN /\ parsed' = Some([parsed[1] EXCEPT !.sections.pnl =
                                   _extract_pnl_from_text(doc.lines, scale)])
            /\ ran' = Append(ran, "pnl_fallback")
       ELSE UNCHANGED <<parsed, ran>>
    /\ pc' = "bs_fb"
    /\ UNCHANGED <<doc, scale, unit_label, sections, step4, raised>>
    /\ UNCHANGED env

PnlFallback ==
    /\ pc = "pnl_fb"
    /\ IF parsed[1].sections.pnl = <<>>
       THEN /\ parsed' = Some([parsed[1] EXCEPT !.sections.pnl =
                                   _extract_pnl_from_text(doc.lines, scale)])
            /\ ran' = Append(ran, "pnl_fallback")
       ELSE UNCHANGED <<parsed, ran>>
    /\ pc' = "bs_fb"
    /\ UNCHANGED <<doc, scale, unit_label, sections, step4, raised>>
    /\ UNCHANGED env

BsFallback ==
    /\ pc = "bs_fb"
    /\ IF parsed[1].sections.balance_sheet = <<>>
       THEN LET fallback == _extract_from_text(doc.lines)
                cur == parsed[1].sections
            IN  /\ parsed' = Some([parsed[1] EXCEPT !.sections =
                       [cur EXCEPT
                           !.balance_sheet = FillEmpty(cur.balance_sheet, fallback.balance_sheet),
                           !.pnl = FillEmpty(cur.pnl, fallback.pnl),
                           !.cash_flow = FillEmpty(cur.cash_flow, fallback.cash_flow)]])
                /\ ran' = Append(ran, "bs_fallback")
       ELSE UNCHANGED <<parsed, ran>>
    /\ pc' = "validate"
    /\ UNCHANGED <<doc, scale, unit_label, sections, step4, raised>>
    /\ UNCHANGED env

Validate ==
    /\ pc = "validate"
    /\ LET caught == CatchValidation(_validate_basic_balance(parsed[1].sections.balance_sheet))
       IN  /\ parsed' = Some([parsed[1] EXCEPT !.validation_warning = caught.warning])
           /\ raised' = caught.raised
    /\ ran' = Append(ran, "validate")
    /\ pc' = "done"
    /\ UNCHANGED <<doc, scale, unit_label, sections, step4>>
    /\ UNCHANGED env

Next ==
    \/ CheckInput
    \/ DetectScale
    \/ Split
    \/ ShortCircuit
    \/ Extract
    \/ PnlFallback
    \/ BsFallback
    \/ Validate

Spec == Init /\ [][Next]_vars

\* ------------------------------------------------------------------------
\* Repeated calls
\* ------------------------------------------------------------------------
MaxCallLines == 1

\* The texts of the repeated calls: headings and balance-sheet totals.
CallLines == { l \in Lines : l.head # NoHead \/ l.words[1] = "TOTAL" }

CallDocs ==
    { [lines |-> t, tables |-> None] : t \in UNION { [1..n -> CallLines] : n \in 0..MaxCallLines } }

\* A frame that survives from one call to the next.
KeptFrame(prev) == prev

\* The locals of a new call: nothing of the call before is visible in it.
EmptyFrame(prev) ==
    [scale |-> 1, unit_label |-> "units", sections |-> <<>>, parsed |-> None,
     step4 |-> None, ran |-> <<>>]

InitCalls ==
    /\ doc \in CallDocs
    /\ pc = "start"
    /\ scale = 1
    /\ unit_label = "units"
    /\ sections = <<>>
    /\ parsed = None
    /\ step4 = None
    /\ ran = <<>>
    /\ raised = "none"
    /\ seen = None
    /\ trend = None
    /\ req = None
    /\ fname = None
    /\ call = None

\* One step of the call in progress.
CallStep == Next

\* The call has returned or raised; the caller may remember it, and calls
\* parse_financial_document again with any text.
CallAgain ==
    /\ pc = "done"
    /\ \/ seen' = Some([doc |-> doc, parsed |-> parsed, raised |-> raised,
                        other |-> FALSE])
       \/ /\ seen # None
          /\ seen' = Some([seen[1] EXCEPT !.other = @ \/ doc # seen[1].doc])
    /\ doc' \in CallDocs
    /\ LET frame == EmptyFrame([scale |-> scale, unit_label |-> unit_label,
                                sections |-> sections, parsed |-> parsed,
                                step4 |-> step4, ran |-> ran])
       IN  /\ scale' = frame.scale
           /\ unit_label' = frame.unit_label
           /\ sections' = frame.sections
           /\ parsed' = frame.parsed
           /\ step4' = frame.step4
           /\ ran' = frame.ran
    /\ raised' = "none"
    /\ pc' = "start"
    /\ UNCHANGED <<trend, req, fname, call>>

NextCalls ==
    \/ CallStep
    \/ CallAgain

SpecCalls == InitCalls /\ [][NextCalls]_vars

\* ------------------------------------------------------------------------
\* KPI computation (financial_analysis_service)
\* ------------------------------------------------------------------------
\* A parsed document as compute_kpis reads it: the balance-sheet items and
\* the P&L and cash-flow dictionaries, a dictionary being the sequence of
\* its entries in insertion order.  Amounts are whole numbers; a KPI is a
\* number of hundredths, which holds every value rounded to two decimals.
Hundredths(v) == v * 100

\* round(n / d, 0) for whole n and d # 0: the nearest whole number, a tie
\* going to the even one.
RoundDiv(n, d) ==
    LET an == Abs(n)
        ad == Abs(d)
        q == an \div ad
        r == an % ad
        up == 2 * r > ad \/ (2 * r = ad /\ q % 2 = 1)
        mag == IF up THEN q + 1 ELSE q
    IN  IF (n < 0) # (d < 0) THEN 0 - mag ELSE mag

\* it["item"].upper() / k.upper(), word by word.
UpperWords(ws) == [i \in 1..Len(ws) |-> Upper(ws[i])]

KeyMatches(label, key_snippets) ==
    \E j \in 1..Len(key_snippets) : ContainsPhrase(UpperWords(label), key_snippets[j])

\* _find_single_value: current_period of the first item whose label holds a
\* snippet.
_find_single_value(items, key_snippets) ==
    LET hits == { i \in 1..Len(items) :
                    items[i].item # <<>> /\ KeyMatches(items[i].item, key_snippets) }
    IN  IF hits = {} THEN None ELSE items[MinOf(hits)].current_period

\* _extract_numeric over a dictionary: the value of the first key that holds
\* a snippet.
_extract_numeric(section, key_snippets) ==
    LET hits == { i \in 1..Len(section) : KeyMatches(section[i].key, key_snippets) }
    IN  IF hits = {} THEN None ELSE section[MinOf(hits)].value

\* A value that is not a number: a string the caller put where an amount
\* belongs.  A number is <<v>>, a string <<s, "str">>.
Text(s) == <<s, "str">>
IsNumber(x) == Len(x) = 1

\* "if x": a value that is present and neither zero nor empty.
Truthy(x) == x # None /\ (IsNumber(x) => x[1] # 0)

\* round(n / d * m, 0) for whole n, d # 0 and an even whole m > 0, the
\* quotient taken first so that the product stays small.
RoundRatio(n, m, d) ==
    LET an == Abs(n)
        ad == Abs(d)
        mag == (an \div ad) * m + RoundDiv((an % ad) * m, ad)
    IN  IF (n < 0) # (d < 0) THEN 0 - mag ELSE mag

\* _generate_summary, by the sentence it builds.
_generate_summary(metrics) ==
    IF DOMAIN metrics = {} THEN "Insufficient parsed metrics for summary."
    ELSE IF DOMAIN metrics \subseteq {"revenue", "net_profit", "total_assets",
                                      "total_equity", "total_liabilities"}
              /\ ~({"revenue", "net_profit"} \subseteq DOMAIN metrics)
    THEN "Insufficient parsed data."
    ELSE "parts"

\* The scale-correction block at the end of compute_kpis: it rebinds the
\* locals revenue and net_profit (hundredths here) and nothing else.
ScaleCorrection(revenue, net_profit) ==
    IF Truthy(revenue) /\ Truthy(net_profit) /\ net_profit[1] > 5 * revenue[1]
    THEN IF revenue[1] < Hundredths(1000)
         THEN [revenue |-> Some(revenue[1] * 1000), net_profit |-> net_profit]
         ELSE IF net_profit[1] > Hundredths(1000000)
         THEN [revenue |-> revenue, net_profit |-> Some(net_profit[1] \div 100)]
         ELSE [revenue |-> revenue, net_profit |-> net_profit]
    ELSE [revenue |-> revenue, net_profit |-> net_profit]

\* "net_profit > 5 * revenue" between a number and a string raises a
\* TypeError (two strings compare without one; no input here holds two).
ScaleFails(revenue, net_profit) ==
    Truthy(revenue) /\ Truthy(net_profit) /\ IsNumber(revenue) # IsNumber(net_profit)

ScaleError(revenue) ==
    IF IsNumber(revenue) THEN "'>' not supported between instances of 'str' and 'float'"
    ELSE "'>' not supported between instances of 'float' and 'str'"

\* A variant of the block that writes the rebound locals into the result.
StoresCorrection(metrics, corrected) ==
    [k \in DOMAIN metrics |->
        IF k = "revenue" /\ corrected.revenue # None THEN corrected.revenue[1]
        ELSE IF k = "net_profit" /\ corrected.net_profit # None THEN corrected.net_profit[1]
        ELSE metrics[k]]

\* The result after the block has run: the block assigns to no key of it.
AfterCorrection(metrics, corrected) == metrics

\* The entries compute_kpis stores, each present when its condition holds.
Metric(name, cond, v) == IF cond THEN { <<name, v>> } ELSE {}

MetricsOf(pairs) ==
    [k \in { q[1] : q \in pairs } |-> (CHOOSE q \in pairs : q[1] = k)[2]]

\* A raw value as it is stored: a number as its hundredths, a string as is.
Raw(x) == IF IsNumber(x) THEN Hundredths(x[1]) ELSE x

\* A local as the result holds it: an amount in hundredths.
InHundredths(x) == IF x # None /\ IsNumber(x) THEN Some(Hundredths(x[1])) ELSE x

\* A ratio is attempted when both operands are truthy; the division of a
\* string raises, and the "except Exception: pass" around it stores nothing.
Attempted(a, b) == Truthy(a) /\ Truthy(b)
Divides(a, b) == Attempted(a, b) /\ IsNumber(a) /\ IsNumber(b)

compute_kpis(p) ==
    IF p.sections = None
    THEN [error |-> "'NoneType' object has no attribute 'get'"]
    ELSE
    LET total_assets == _find_single_value(p.sections[1].balance_sheet, <<<<"TOTAL", "ASSETS">>>>)
        total_equity == _find_single_value(p.sections[1].balance_sheet, <<<<"TOTAL", "EQUITY">>>>)
        total_liabilities ==
            _find_single_value(p.sections[1].balance_sheet, <<<<"TOTAL", "LIABILITIES">>>>)
        revenue == _extract_numeric(p.sections[1].pnl, <<<<"REVENUE">>, <<"TOTAL", "INCOME">>>>)
        net_profit ==
            _extract_numeric(p.sections[1].pnl,
                             << <<"PROFIT">>, <<"NET", "PROFIT">>,
                                <<"PROFIT", "FOR", "THE", "PERIOD">> >>)
        operating_cf ==
            _extract_numeric(p.sections[1].cash_flow,
                             << <<"NET", "CASH", "GENERATED">>, <<"OPERATING">>,
                                <<"CASH", "GENERATED", "FROM", "OPERATIONS">> >>)
        capex == _extract_numeric(p.sections[1].cash_flow, <<<<"Purchase">>, <<"CAPEX">>>>)
        metrics ==
            MetricsOf(
                Metric("net_profit_margin_pct", Divides(revenue, net_profit),
                       RoundRatio(net_profit[1], 10000, revenue[1]))
                \cup Metric("debt_to_equity", Divides(total_equity, total_liabilities),
                            RoundRatio(total_liabilities[1], 100, total_equity[1]))
                \cup Metric("equity_to_assets_pct", Divides(total_assets, total_equity),
                            RoundRatio(total_equity[1], 10000, total_assets[1]))
                \cup Metric("asset_turnover_ratio", Divides(total_assets, revenue),
                            RoundRatio(revenue[1], 100, total_assets[1]))
                \cup Metric("return_on_equity_pct", Divides(total_equity, net_profit),
                            RoundRatio(net_profit[1], 10000, total_equity[1]))
                \cup Metric("free_cash_flow",
                            /\ operating_cf # None /\ capex # None
                            /\ IsNumber(operating_cf) /\ IsNumber(capex),
                            Hundredths(operating_cf[1] - capex[1]))
                \cup Metric("revenue", revenue # None, Raw(revenue))
                \cup Metric("net_profit", net_profit # None, Raw(net_profit))
                \cup Metric("total_assets", total_assets # None, Raw(total_assets))
                \cup Metric("total_equity", total_equity # None, Raw(total_equity))
                \cup Metric("total_liabilities", total_liabilities # None,
                            Raw(total_liabilities)))
        result ==
            AfterCorrection(metrics,
                            ScaleCorrection(InHundredths(revenue), InHundredths(net_profit)))
    IN  IF ScaleFails(revenue, net_profit)
        THEN [k \in (DOMAIN metrics) \cup {"error"} |->
                IF k = "error" THEN ScaleError(revenue) ELSE metrics[k]]
        ELSE [k \in (DOMAIN result) \cup {"summary"} |->
                IF k = "summary" THEN _generate_summary(result) ELSE result[k]]

\* ------------------------------------------------------------------------
\* Trend aggregation (trend_analysis_service)
\* ------------------------------------------------------------------------
MaxTrendDocs == 3

Item(label, v) == [item |-> label, current_period |-> Some(v)]
Entry(label, v) == [key |-> label, value |-> Some(v)]

TrendDoc(period_hint, company, secs) ==
    [meta |-> [period_hint |-> period_hint, company |-> company], sections |-> secs]

TrendDocs ==
    { TrendDoc(Some("Q1 FY25"), Some("ACME LIMITED"),
               Some([balance_sheet |-> <<Item(<<"TOTAL", "ASSETS">>, 1000),
                                         Item(<<"TOTAL", "EQUITY">>, 600),
                                         Item(<<"TOTAL", "LIABILITIES">>, 400)>>,
                     pnl |-> <<Entry(<<"REVENUE">>, 100), Entry(<<"NET", "PROFIT">>, 0 - 50)>>,
                     cash_flow |-> <<Entry(<<"OPERATING", "ACTIVITIES">>, 30),
                                     Entry(<<"CAPEX">>, 30)>>])),
      TrendDoc(Some("Q4 FY24"), Some("ACME LIMITED"),
               Some([balance_sheet |-> <<Item(<<"TOTAL", "ASSETS">>, 1000),
                                         Item(<<"TOTAL", "EQUITY">>, 500)>>,
                     pnl |-> <<Entry(<<"REVENUE">>, 120), Entry(<<"NET", "PROFIT">>, 30)>>,
                     cash_flow |-> <<Entry(<<"OPERATING", "ACTIVITIES">>, 70),
                                     Entry(<<"CAPEX">>, 30)>>])),
      TrendDoc(Some("Q1 FY25"), Some("ACME LIMITED"),
               Some([balance_sheet |-> <<>>,
                     pnl |-> <<Entry(<<"REVENUE">>, 3), Entry(<<"NET", "PROFIT">>, 1)>>,
                     cash_flow |-> <<>>])),
      TrendDoc(None, Some("ACME LIMITED"),
               Some([balance_sheet |-> <<>>,
                     pnl |-> <<Entry(<<"REVENUE">>, 0)>>,
                     cash_flow |-> <<>>])),
      TrendDoc(None, None,
               Some([balance_sheet |-> <<>>,
                     pnl |-> <<Entry(<<"REVENUE">>, 120)>>,
                     cash_flow |-> <<>>])),
      TrendDoc(None, None, None) }

\* f"period_{n}"
SynthKeys == <<"period_1", "period_2", "period_3", "period_4", "period_5">>

\* The period keys of the model in the order sorted() gives them.
KeyOrder == <<"ACME LIMITED", "Q1 FY25", "Q4 FY24">> \o SynthKeys

Rank(k) == CHOOSE i \in 1..Len(KeyOrder) : KeyOrder[i] = k

\* A key that prefers the company to the period.
CompanyKey(meta, n) ==
    IF meta.company # None THEN meta.company[1]
    ELSE IF meta.period_hint # None THEN meta.period_hint[1]
    ELSE SynthKeys[n + 1]

\* meta.get("period_hint") or meta.get("company") or f"period_{n+1}"
PeriodKey(meta, n) ==
    IF meta.period_hint # None THEN meta.period_hint[1]
    ELSE IF meta.company # None THEN meta.company[1]
    ELSE SynthKeys[n + 1]

\* isinstance(kpis.get(k), (int, float)): compute_kpis stores a number under
\* every key but summary and error.
IsNumeric(kpis, k) == k \in DOMAIN kpis /\ k \notin {"summary", "error"}

\* A growth figure that divides by the previous value, sign included.
GrowthSigned(latest, previous) ==
    IF previous # 0 THEN Some(RoundDiv((latest - previous) * 10000, previous)) ELSE None

\* round((latest - previous) / abs(previous) * 100, 2) if previous != 0
\* else None, on hundredths.
Growth(latest, previous) ==
    IF previous # 0 THEN Some(RoundDiv((latest - previous) * 10000, Abs(previous))) ELSE None

\* periods[-1] and periods[-2] of the sorted keys.
Latest(keys) == CHOOSE k \in keys : \A o \in keys : Rank(o) <= Rank(k)

Comparisons(timeseries) ==
    LET keys == DOMAIN timeseries
        latest == Latest(keys)
        prev == Latest(keys \ {latest})
        latest_kpis == timeseries[latest].kpis
        prev_kpis == timeseries[prev].kpis
        both == { k \in DOMAIN latest_kpis : IsNumeric(latest_kpis, k) /\ IsNumeric(prev_kpis, k) }
    IN  [periods |-> <<prev, latest>>,
         metrics |-> [k \in both |->
                        [latest |-> latest_kpis[k], previous |-> prev_kpis[k],
                         growth_pct |-> Growth(latest_kpis[k], prev_kpis[k])]]]

InitTrend ==
    /\ doc = [lines |-> <<>>]
    /\ pc = "done"
    /\ scale = 1
    /\ unit_label = "units"
    /\ sections = <<>>
    /\ parsed = None
    /\ step4 = None
    /\ ran = <<>>
    /\ raised = "none"
    /\ seen = None
    /\ \E n \in 0..MaxTrendDocs : \E input \in [1..n -> TrendDocs] :
          trend = [pc |-> "loop", parsed_list |-> input, i |-> 1,
                   timeseries |-> EmptyMap, comparisons |-> None]
    /\ req = None
    /\ fname = None
    /\ call = None

\* for p in parsed_list: one document
AggregateDoc ==
    /\ trend # None
    /\ trend.pc = "loop"
    /\ trend.i <= Len(trend.parsed_list)
    /\ LET p == trend.parsed_list[trend.i]
           period == PeriodKey(p.meta, Cardinality(DOMAIN trend.timeseries))
       IN  trend' = [trend EXCEPT
                        !.timeseries = Put(@, period, [meta |-> p.meta, kpis |-> compute_kpis(p)]),
                        !.i = @ + 1]
    /\ UNCHANGED <<doc, pc, scale, unit_label, sections, parsed, step4, ran, raised, seen,
                   req, fname, call>>

\* periods = sorted(...); if len(periods) >= 2: comparisons; return result
Compare ==
    /\ trend # None
    /\ trend.pc = "loop"
    /\ trend.i > Len(trend.parsed_list)
    /\ trend' = [trend EXCEPT
                    !.comparisons = IF Cardinality(DOMAIN trend.timeseries) >= 2
                                    THEN Some(Comparisons(trend.timeseries))
                                    ELSE None,
                    !.pc = "done"]
    /\ UNCHANGED <<doc, pc, scale, unit_label, sections, parsed, step4, ran, raised, seen,
                   req, fname, call>>

NextTrend ==
    \/ AggregateDoc
    \/ Compare

SpecTrend == InitTrend /\ [][NextTrend]_vars

\* ------------------------------------------------------------------------
\* POST /analyze: analyze_pdf and _run_analysis (routes/analysis.py)
\*
\* A request is a record: where the handler is (pc), the upload's file name,
\* the temporary file (exists: its directory entry, open: the handle tmp),
\* the OCR service object of _run_analysis (ocr, closed), the exception in
\* flight (exc) and the response.  What the operating system, the upload and
\* the OCR service do is the environment's choice: any call may raise.
\* os.remove follows its documentation: on Windows removing a file that is
\* in use raises, on Unix the directory entry is removed.

Platforms == {"posix", "windows"}

Filenames == {None, Some(<<"report", ".pdf">>), Some(<<"REPORT", ".PDF">>),
              Some(<<"notes", ".txt">>)}

Lower(w) == CASE w = ".PDF" -> ".pdf" [] w = "REPORT" -> "report" [] OTHER -> w

\* suffix = ".pdf" if (file.filename or "").lower().endswith(".pdf") else ""
Suffix(filename) ==
    IF filename # None /\ Lower(filename[1][Len(filename[1])]) = ".pdf" THEN ".pdf" ELSE ""

\* What ocr._find_toc() returns: nothing, a page number, or a capture that
\* int() rejects.
TocCaptures == {"none", "page", "junk"}

DefaultLogicalStart == 99
CapturedPage == 120

\* logical_start = 99, replaced by int(captured) when that parses
LogicalStart(toc) == IF toc = "page" THEN CapturedPage ELSE DefaultLogicalStart

\* os.remove(tmp_path)
RemoveSucceeds(r) == ~(r.platform = "windows" /\ r.open)

InitHandler ==
    /\ doc = [lines |-> <<>>]
    /\ pc = "done"
    /\ scale = 1
    /\ unit_label = "units"
    /\ sections = <<>>
    /\ parsed = None
    /\ step4 = None
    /\ ran = <<>>
    /\ raised = "none"
    /\ seen = None
    /\ trend = None
    /\ fname = None
    /\ call = None
    /\ \E platform \in Platforms, filename \in Filenames, prefer \in BOOLEAN,
          toc \in TocCaptures :
          req = [pc |-> "start", platform |-> platform, filename |-> filename,
                 prefer_label_column |-> prefer, toc |-> toc, suffix |-> "",
                 exists |-> FALSE, open |-> FALSE, ocr |-> "none",
                 closed |-> "no", logical_start |-> DefaultLogicalStart,
                 exc |-> "none", response |-> "none", failed_at |-> "none"]

HandlerIdle ==
    UNCHANGED <<doc, pc, scale, unit_label, sections, parsed, step4, ran, raised, seen,
                trend, fname, call>>

At(label) == req # None /\ req.pc = label

\* Lines 32-34, before the try: a failure here leaves the handler with no
\* file made.
CreateTemp ==
    /\ At("start")
    /\ \/ req' = [req EXCEPT !.suffix = Suffix(req.filename), !.exists = TRUE,
                             !.open = TRUE, !.pc = "read"]
       \/ req' = [req EXCEPT !.suffix = Suffix(req.filename), !.exc = "Exception",
                             !.failed_at = "create", !.response = "500",
                             !.pc = "finished"]
    /\ HandlerIdle

\* content = await file.read()
ReadUpload ==
    /\ At("read")
    /\ \/ req' = [req EXCEPT !.pc = "write"]
       \/ req' = [req EXCEPT !.exc = "Exception", !.failed_at = "read", !.pc = "except"]
    /\ HandlerIdle

\* tmp.write(content); tmp.flush(); tmp.close()
WriteTemp ==
    /\ At("write")
    /\ \/ req' = [req EXCEPT !.open = FALSE, !.pc = "construct"]
       \/ req' = [req EXCEPT !.exc = "Exception", !.failed_at = "write", !.pc = "except"]
    /\ HandlerIdle

\* _run_analysis: ocr = None; ocr = OcrService(pdf_path)
Construct ==
    /\ At("construct")
    /\ \/ req' = [req EXCEPT !.ocr = "constructed", !.pc = "open"]
       \/ \E e \in {"OcrServiceError", "Exception"} :
             req' = [req EXCEPT !.exc = e, !.failed_at = "construct", !.pc = "ra_except"]
    /\ HandlerIdle

\* ocr.open()
OpenOcr ==
    /\ At("open")
    /\ \/ req' = [req EXCEPT !.ocr = "opened", !.pc = "toc"]
       \/ \E e \in {"OcrServiceError", "Exception"} :
             req' = [req EXCEPT !.exc = e, !.failed_at = "open", !.pc = "ra_except"]
    /\ HandlerIdle

\* toc_candidates = ocr._find_toc(); logical_start
FindToc ==
    /\ At("toc")
    /\ \/ req' = [req EXCEPT !.logical_start = LogicalStart(req.toc), !.pc = "pipeline"]
       \/ \E e \in {"OcrServiceError", "Exception"} :
             req' = [req EXCEPT !.exc = e, !.failed_at = "toc", !.pc = "ra_except"]
    /\ HandlerIdle

\* map_logical_to_physical ... parser.parse ... return JSONResponse(...)
Pipeline ==
    /\ At("pipeline")
    /\ \/ req' = [req EXCEPT !.response = "200", !.pc = "ra_finally"]
       \/ \E e \in {"OcrServiceError", "Exception"} :
             req' = [req EXCEPT !.exc = e, !.failed_at = "pipeline", !.pc = "ra_except"]
    /\ HandlerIdle

\* except OcrServiceError / except Exception: raise HTTPException(500, ...)
RunAnalysisExcept ==
    /\ At("ra_except")
    /\ req' = [req EXCEPT !.exc = "HTTPException", !.pc = "ra_finally"]
    /\ HandlerIdle

\* finally: if ocr: ocr.close(), a failure of close() ignored
RunAnalysisFinally ==
    /\ At("ra_finally")
    /\ \E closes \in BOOLEAN :
          req' = [req EXCEPT
                    !.closed = IF req.ocr = "none" THEN "no"
                               ELSE IF closes THEN "yes" ELSE "raised",
                    !.pc = IF req.exc = "none" THEN "finally" ELSE "except"]
    /\ HandlerIdle

\* except Exception: raise HTTPException(status_code=500, detail="internal_error")
HandlerExcept ==
    /\ At("except")
    /\ req' = [req EXCEPT !.exc = "HTTPException", !.response = "500", !.pc = "finally"]
    /\ HandlerIdle

\* finally: if os.path.exists(tmp_path): os.remove(tmp_path), a failure ignored
HandlerFinally ==
    /\ At("finally")
    /\ req' = [req EXCEPT
                 !.exists = IF req.exists /\ RemoveSucceeds(req) THEN FALSE ELSE req.exists,
                 !.pc = "finished"]
    /\ HandlerIdle

NextHandler ==
    \/ CreateTemp
    \/ ReadUpload
    \/ WriteTemp
    \/ Construct
    \/ OpenOcr
    \/ FindToc
    \/ Pipeline
    \/ RunAnalysisExcept
    \/ RunAnalysisFinally
    \/ HandlerExcept
    \/ HandlerFinally

SpecHandler == InitHandler /\ [][NextHandler]_vars

\* ------------------------------------------------------------------------
\* extract_company_name (utils/company_extract.py)
\*
\* A file name is a directory part, a sequence of pieces and an extension.
\* A piece is a delimiter (space, underscore, hyphen) or a run of other
\* characters; pieces with no delimiter between them are one token.

MaxPieces == 3

HexLower == "0123456789abcdef0123456789abcdef"
HexMixed == "0123456789ABCDEF0123456789abcdef"
HexUpper == "0123456789ABCDEF0123456789ABCDEF"
HexShort == "0123456789abcdef0123456789abcde"

Delimiters == {" ", "_", "-"}
Pieces == Delimiters \union {"acme", "Tata", HexLower, HexMixed, HexShort}
Extensions == {"", ".pdf"}
Dirs == {<<>>, <<"uploads">>}

PieceSeqs == UNION { [1..n -> Pieces] : n \in 0..MaxPieces }

NameInputs == [dir : Dirs, pieces : PieceSeqs, ext : Extensions]

\* str.upper() and str.lower() on the pieces
UpperPiece(w) ==
    CASE w = "acme" -> "ACME"
      [] w = "Tata" -> "TATA"
      [] w = ".pdf" -> ".PDF"
      [] w \in {HexLower, HexMixed} -> HexUpper
      [] w = HexShort -> "0123456789ABCDEF0123456789ABCDE"
      [] OTHER -> w

LowerPiece(w) ==
    CASE w = "Tata" -> "tata"
      [] w \in {HexMixed, HexUpper} -> HexLower
      [] OTHER -> w

UpperAll(ws) == [i \in 1..Len(ws) |-> UpperPiece(ws[i])]

\* The whole argument is the empty string.
EmptyFilename(f) == f.dir = <<>> /\ f.pieces = <<>> /\ f.ext = ""

\* base = os.path.splitext(os.path.basename(filename))[0]: a base name that
\* is nothing but ".pdf" has no extension to strip.
Base(f) == IF f.pieces = <<>> /\ f.ext # "" THEN <<f.ext>> ELSE f.pieces

\* DELIMITER_PATTERN.split(base): the tokens between runs of delimiters, an
\* empty one before a leading and after a trailing run.
RECURSIVE SplitFrom(_, _, _)
SplitFrom(base, i, cur) ==
    IF i > Len(base) THEN <<cur>>
    ELSE IF base[i] \in Delimiters
         THEN IF i > 1 /\ base[i - 1] \in Delimiters
              THEN SplitFrom(base, i + 1, cur)
              ELSE <<cur>> \o SplitFrom(base, i + 1, <<>>)
         ELSE SplitFrom(base, i + 1, Append(cur, base[i]))

Tokens(base) == SplitFrom(base, 1, <<>>)

HexDigits == 32

\* re.fullmatch(r"[0-9a-f]{32}", cleaned.lower())
IsUuid(token) ==
    /\ Len(token) = 1
    /\ LowerPiece(token[1]) = HexLower
    /\ Len(LowerPiece(token[1])) = HexDigits

Usable(token) == token # <<>> /\ ~IsUuid(token)

Unknown == <<"UNKNOWN">>

\* return base.upper()
FallbackBase(base) == UpperAll(base)

extract_company_name(f) ==
    IF EmptyFilename(f) THEN Unknown
    ELSE IF Base(f) = <<>> THEN Unknown
    ELSE LET tokens == Tokens(Base(f))
             usable == { i \in 1..Len(tokens) : Usable(tokens[i]) }
         IN  IF usable # {}
             THEN UpperAll(tokens[MinOf(usable)])
             ELSE FallbackBase(Base(f))

InitNames ==
    /\ doc = [lines |-> <<>>]
    /\ pc = "done"
    /\ scale = 1
    /\ unit_label = "units"
    /\ sections = <<>>
    /\ parsed = None
    /\ step4 = None
    /\ ran = <<>>
    /\ raised = "none"
    /\ seen = None
    /\ trend = None
    /\ req = None
    /\ \E f \in NameInputs : fname = [pc |-> "call", filename |-> f, result |-> None]
    /\ call = None

ExtractCompanyName ==
    /\ fname # None
    /\ fname.pc = "call"
    /\ fname' = [fname EXCEPT !.result = Some(extract_company_name(fname.filename)),
                              !.pc = "done"]
    /\ UNCHANGED <<doc, pc, scale, unit_label, sections, parsed, step4, ran, raised, seen,
                   trend, req, call>>

NextNames == ExtractCompanyName

SpecNames == InitNames /\ [][NextNames]_vars

\* ------------------------------------------------------------------------
\* _normalize_item_name on long names
\*
\* A cleaned name (whitespace collapsed, ends stripped) is its length, the
\* positions of its punctuation marks (: ; . - ,) and the positions of its
\* blanks, counted from 0; every other character is a letter.  The result is
\* the slice [from, to) of the name.

MaxLabel == 120
MinCut == 80

LabelLengths == {100, 120, 121, 130, 150, 250}
PunctGrid == {40, 90, 100, 125, 200}
SpaceGrid == {50, 110, 119, 130}

LongNames ==
    { [len |-> L, punct |-> P, spaces |-> S] :
        L \in LabelLengths,
        P \in SUBSET PunctGrid,
        S \in SUBSET SpaceGrid }

WellFormedName(n) == \A q \in n.punct \cup n.spaces : q < n.len - 1

MaxOf(S) == CHOOSE m \in S : \A x \in S : x <= m

\* re.search(r'(.{80,120}?)[:;\.\-\,\n]', name): the leftmost start from
\* which a mark stands 80 to 120 characters on, and from there the nearest
\* such mark.
CutStarts(n) == { s \in 0..n.len : \E k \in MinCut..MaxLabel : (s + k) \in n.punct }

SearchCut(n) ==
    LET s == MinOf(CutStarts(n))
        k == MinOf({ j \in MinCut..MaxLabel : (s + j) \in n.punct })
    IN  [from |-> s, to |-> s + k]

\* name[:120].rsplit(' ', 1)[0]
HardCut(n) ==
    LET sp == { q \in n.spaces : q < MaxLabel }
    IN  [from |-> 0, to |-> IF sp = {} THEN MaxLabel ELSE MaxOf(sp)]

\* strip() and the removal of leading and trailing non-word runs
RECURSIVE TrimSlice(_, _)
TrimSlice(n, sl) ==
    IF sl.from < sl.to /\ sl.from \in n.punct \cup n.spaces
    THEN TrimSlice(n, [sl EXCEPT !.from = @ + 1])
    ELSE IF sl.from < sl.to /\ (sl.to - 1) \in n.punct \cup n.spaces
    THEN TrimSlice(n, [sl EXCEPT !.to = @ - 1])
    ELSE sl

NormalizeLong(n) ==
    IF n.len > MaxLabel
    THEN TrimSlice(n, IF CutStarts(n) # {} THEN SearchCut(n) ELSE HardCut(n))
    ELSE [from |-> 0, to |-> n.len]

InitNormalize ==
    /\ doc = [lines |-> <<>>]
    /\ pc = "done"
    /\ scale = 1
    /\ unit_label = "units"
    /\ sections = <<>>
    /\ parsed = None
    /\ step4 = None
    /\ ran = <<>>
    /\ raised = "none"
    /\ seen = None
    /\ trend = None
    /\ req = None
    /\ fname = None
    /\ \E n \in LongNames :
          /\ WellFormedName(n)
          /\ call = [fn |-> "_normalize_item_name", arg |-> n, result |-> None, pc |-> "call"]

CallIdle ==
    UNCHANGED <<doc, pc, scale, unit_label, sections, parsed, step4, ran, raised, seen,
                trend, req, fname>>

Calling(f) == call # None /\ call.fn = f /\ call.pc = "call"
Done(f) == call # None /\ call.fn = f /\ call.pc = "done"

NormalizeName ==
    /\ Calling("_normalize_item_name")
    /\ call' = [call EXCEPT !.result = Some(NormalizeLong(call.arg)), !.pc = "done"]
    /\ CallIdle

NextNormalize == NormalizeName

SpecNormalize == InitNormalize /\ [][NextNormalize]_vars

\* ------------------------------------------------------------------------
\* _detect_period_hint
\*
\* The text holds one date, a month name, a day and a year.  The pattern
\* accepts the four quarter-end months spelled with a capital initial and a
\* year written 20dd.

Century == 100
FirstYear == 2000
LastYear == 2099

Months == {"June", "September", "December", "March", "April", "JUNE"}
Years == (FirstYear - 1)..(LastYear + 1)
Dates == [month : Months, year : Years]

QuarterEnds == {"June", "September", "December", "March"}

\* (June|September|December|March)\s+\d{1,2},?\s*(20\d{2})
Accepted(d) == d.month \in QuarterEnds /\ FirstYear <= d.year /\ d.year <= LastYear

\* f"FY{(year + 1) % 100}"
MarchLabel(year) == (year + 1) % Century

\* f"FY{year % 100 + 1}"
OtherLabel(year) == (year % Century) + 1

QuarterOf(month) ==
    CASE month = "June" -> "Q1"
      [] month = "September" -> "Q2"
      [] month = "December" -> "Q3"
      [] month = "March" -> "Q4"
      [] OTHER -> ""

\* None, or the quarter and the number that follows "FY"
_detect_period_hint(d) ==
    IF ~Accepted(d) THEN None
    ELSE Some([quarter |-> QuarterOf(d.month),
               fy |-> IF d.month = "March" THEN MarchLabel(d.year) ELSE OtherLabel(d.year)])

InitPeriod ==
    /\ doc = [lines |-> <<>>]
    /\ pc = "done"
    /\ scale = 1
    /\ unit_label = "units"
    /\ sections = <<>>
    /\ parsed = None
    /\ step4 = None
    /\ ran = <<>>
    /\ raised = "none"
    /\ seen = None
    /\ trend = None
    /\ req = None
    /\ fname = None
    /\ \E d \in Dates :
          call = [fn |-> "_detect_period_hint", arg |-> d, result |-> None, pc |-> "call"]

DetectPeriodHint ==
    /\ Calling("_detect_period_hint")
    /\ call' = [call EXCEPT !.result = _detect_period_hint(call.arg), !.pc = "done"]
    /\ CallIdle

NextPeriod == DetectPeriodHint

SpecPeriod == InitPeriod /\ [][NextPeriod]_vars

\* ------------------------------------------------------------------------
\* _extract_meta: the company name
\*
\* The text is a sequence of segments set apart by a character no pattern
\* runs across (a semicolon); a segment is a sequence of words.  A segment
\* that ends in LIMITED is one candidate of the first pattern.

MaxSegs == 3

Segments ==
    { <<"ACME", "INDUSTRIES", "LIMITED">>,
      <<"BETA", "LIMITED">>,
      <<"BSE", "LIMITED">>,
      <<"NATIONAL", "STOCK", "EXCHANGE", "OF", "INDIA", "LIMITED">>,
      <<"For", "GAMMA", "Ltd">>,
      <<"DELTA", "CORP", "Regd.", "Office">>,
      <<"ANNUAL", "REPORT">> }

MetaTexts == UNION { [1..n -> Segments] : n \in 0..MaxSegs }

Blacklist ==
    {"BSE", "NSE", "EXCHANGE", "SOCIETE", "LUXEMBOURG", "SEBI", "BOARD", "PHIROZE", "STOCK"}

Last(ws) == ws[Len(ws)]

NameChars(ws) == WordChars(ws) + (IF ws = <<>> THEN 0 ELSE Len(ws) - 1)

\* re.findall(r'\b([A-Z][A-Za-z&\.\s]+?(?:LIMITED|LTD\.))\b', text)
candidates(text) == SelectSeq(text, LAMBDA seg : Last(seg) = "LIMITED")

\* blacklist.search(c)
Blacklisted(c) == \E i \in 1..Len(c) : c[i] \in Blacklist

filtered_candidates(text) == SelectSeq(candidates(text), LAMBDA c : ~Blacklisted(c))

\* max(filtered_candidates, key=len): the first of the longest
Longest(cs) ==
    cs[MinOf({ i \in 1..Len(cs) : \A j \in 1..Len(cs) : NameChars(cs[j]) <= NameChars(cs[i]) })]

\* (?:For\s+)?([A-Z][A-Za-z\s&\.]+)\s+(?:Ltd\.?|LIMITED): the first segment
\* that ends so, its "For" left out, with " Limited" put after the name.
FallbackSegs(text) == SelectSeq(text, LAMBDA seg : Last(seg) \in {"LIMITED", "Ltd", "Ltd."})

FallbackName(seg) ==
    LET body == SubSeq(seg, 1, Len(seg) - 1)
    IN  (IF body # <<>> /\ body[1] = "For" THEN Tail(body) ELSE body) \o <<"Limited">>

\* ([A-Z][A-Za-z&\.\s]+)\s*(?=Regd\. Office)
RegdSegs(text) ==
    SelectSeq(text, LAMBDA seg : Len(seg) > 2 /\ SubSeq(seg, Len(seg) - 1, Len(seg)) = <<"Regd.", "Office">>)

RegdName(seg) == SubSeq(seg, 1, Len(seg) - 2)

UnknownCompany == <<"Unknown">>

Company(text) ==
    IF filtered_candidates(text) # <<>> THEN Longest(filtered_candidates(text))
    ELSE IF FallbackSegs(text) # <<>> THEN FallbackName(FallbackSegs(text)[1])
    ELSE IF RegdSegs(text) # <<>> THEN RegdName(RegdSegs(text)[1])
    ELSE UnknownCompany

InitMeta ==
    /\ doc = [lines |-> <<>>]
    /\ pc = "done"
    /\ scale = 1
    /\ unit_label = "units"
    /\ sections = <<>>
    /\ parsed = None
    /\ step4 = None
    /\ ran = <<>>
    /\ raised = "none"
    /\ seen = None
    /\ trend = None
    /\ req = None
    /\ fname = None
    /\ \E t \in MetaTexts :
          call = [fn |-> "_extract_meta", arg |-> t, result |-> None, pc |-> "call"]

ExtractMeta ==
    /\ Calling("_extract_meta")
    /\ call' = [call EXCEPT !.result = Some(Company(call.arg)), !.pc = "done"]
    /\ CallIdle

NextMeta == ExtractMeta

SpecMeta == InitMeta /\ [][NextMeta]_vars

\* ------------------------------------------------------------------------
\* compute_kpis on one parsed document
\*
\* The document holds at most one revenue, net profit, total assets, total
\* equity and total liabilities, and one of a few cash-flow statements whose
\* labels are spelled in capitals, in mixed case, or as the line of a real
\* statement ("Purchase of property ...").
\* ------------------------------------------------------------------------
KpiRevenues == { None, Some(0), Some(7), Some(100), Some(1000), Text("abc") }
KpiProfits == { None, Some(0 - 50), Some(30), Some(600), Some(1000001) }
KpiAssets == { None, Some(1000) }
KpiEquities == { None, Some(0), Some(500) }
KpiLiabilities == { None, Some(400) }

KpiCashFlows ==
    { <<>>,
      <<Entry(<<"OPERATING", "ACTIVITIES">>, 70), Entry(<<"CAPEX">>, 30)>>,
      <<Entry(<<"Operating", "ACTIVITIES">>, 70), Entry(<<"Capex">>, 30)>>,
      <<Entry(<<"OPERATING", "ACTIVITIES">>, 70),
        Entry(<<"Purchase", "OF", "PROPERTY">>, 30)>>,
      <<Entry(<<"OPERATING", "ACTIVITIES">>, 70)>> }

\* The row or entry of a value that is present.
RowOf(label, x) == IF x = None THEN <<>> ELSE <<[item |-> label, current_period |-> x]>>
EntryOf(label, x) == IF x = None THEN <<>> ELSE <<[key |-> label, value |-> x]>>

KpiDoc(revenue, net_profit, total_assets, total_equity, total_liabilities, cash_flow) ==
    TrendDoc(None, None,
             Some([balance_sheet |-> RowOf(<<"TOTAL", "ASSETS">>, total_assets)
                                     \o RowOf(<<"TOTAL", "EQUITY">>, total_equity)
                                     \o RowOf(<<"TOTAL", "LIABILITIES">>, total_liabilities),
                   pnl |-> EntryOf(<<"REVENUE">>, revenue)
                           \o EntryOf(<<"NET", "PROFIT">>, net_profit),
                   cash_flow |-> cash_flow]))

KpiDocs ==
    { KpiDoc(r, n, a, e, l, c) :
        r \in KpiRevenues, n \in KpiProfits, a \in KpiAssets, e \in KpiEquities,
        l \in KpiLiabilities, c \in KpiCashFlows }
    \cup { TrendDoc(None, None, None) }

InitKpis ==
    /\ doc = [lines |-> <<>>]
    /\ pc = "done"
    /\ scale = 1
    /\ unit_label = "units"
    /\ sections = <<>>
    /\ parsed = None
    /\ step4 = None
    /\ ran = <<>>
    /\ raised = "none"
    /\ seen = None
    /\ trend = None
    /\ req = None
    /\ fname = None
    /\ \E p \in KpiDocs :
          call = [fn |-> "compute_kpis", arg |-> p, result |-> None, pc |-> "call"]

ComputeKpis ==
    /\ Calling("compute_kpis")
    /\ call' = [call EXCEPT !.result = Some(compute_kpis(call.arg)), !.pc = "done"]
    /\ CallIdle

NextKpis == ComputeKpis

SpecKpis == InitKpis /\ [][NextKpis]_vars

\* ------------------------------------------------------------------------
\* Texts of table rows
\* ------------------------------------------------------------------------
MaxFragLines == 3

FragmentLines ==
    { Line(NoHead, <<"TOTAL", "ASSETS">>, <<Tok("1,234", 1234), Tok("1,100", 1100)>>, <<>>),
      Line(NoHead, <<"TOTAL", "ASSETS">>,
           <<GlueTok("1,234,567", 1234567, <<Tok("1,23", 123), Tok("4,567", 4567)>>)>>, <<>>),
      Line(NoHead, <<"OTHER", "INCOME">>, <<Tok("10", 10), Tok("20", 20), Tok("30", 30)>>, <<>>),
      Line(NoHead, <<"LOANS">>, <<ParenTok("(500)", 500), Tok("1,000", 1000)>>, <<>>),
      Line(NoHead, <<"TOTAL", "EQUITY">>, <<BadTok("1.2.3"), Tok("400", 400)>>, <<>>),
      Line(NoHead, <<"Notes">>, <<Tok("5", 5), Tok("1,000", 1000)>>, <<>>),
      Line(NoHead, <<"CASH">>, <<Tok("50", 50)>>, <<>>),
      Line(NoHead, <<"CASH", "AND", "BANK">>, <<Tok("50", 50), Tok("40", 40)>>, <<>>),
      Line(NoHead, <<"Director", "FEES">>, <<Tok("500", 500), Tok("400", 400)>>, <<>>),
      Line(NoHead, <<"INCLUDING", "TAX">>, <<Tok("500", 500)>>, <<>>),
      Line(NoHead, <<"REVENUE">>, <<Tok("900", 900)>>, <<"RESTATED">>),
      Line(NoHead, <<"RS", "IN", "THOUSAND">>, <<>>, <<>>),
      Line(Heading("cash_flow", 1), <<"CASH", "FLOW">>, <<>>, <<>>) }

FragmentDocs ==
    { [lines |-> t, tables |-> None] : t \in UNION { [1..n -> FragmentLines] : n \in 0..MaxFragLines } }

InitFragments ==
    /\ doc \in FragmentDocs
    /\ pc = "start"
    /\ scale = 1
    /\ unit_label = "units"
    /\ sections = <<>>
    /\ parsed = None
    /\ step4 = None
    /\ ran = <<>>
    /\ raised = "none"
    /\ seen = None
    /\ trend = None
    /\ req = None
    /\ fname = None
    /\ call = None

SpecFragments == InitFragments /\ [][Next]_vars

\* ------------------------------------------------------------------------
\* Texts of headings
\*
\* Headings worded with the later phrases of a kind, next to the headings
\* worded with the first.  The head of a line is the first phrase, in list
\* order, that matches in it: "STATEMENT OF FINANCIAL POSITION" matches the
\* second and the fourth phrase of balance_sheet and not the first,
\* "STATEMENT OF CASH FLOWS" the second and the fourth of cash_flow ("cash
\* flow" ends at a word boundary, which FLOWS does not give), "OPERATIONS" the
\* sixth of pnl.  Each of them matches from the start of its line.

MaxHeadLines == 3

LaterPhraseLines ==
    { Line(Heading("balance_sheet", 2),
           <<"STATEMENT", "OF", "FINANCIAL", "POSITION", "AS", "AT", "THE", "END", "OF",
             "THE", "FINANCIAL", "YEAR", "UNDER", "REVIEW">>, <<>>, <<>>),
      Line(Heading("cash_flow", 2),
           <<"STATEMENT", "OF", "CASH", "FLOWS", "FOR", "THE", "FINANCIAL", "YEAR",
             "UNDER", "REVIEW">>, <<>>, <<>>),
      Line(Heading("pnl", 6),
           <<"OPERATIONS", "FOR", "THE", "FINANCIAL", "YEAR", "UNDER", "REVIEW", "AND",
             "THE", "YEAR", "BEFORE">>, <<>>, <<>>) }

HeadingTextLines ==
    HeadingLines \cup LaterPhraseLines
    \cup { Line(NoHead, <<"TOTAL", "ASSETS">>, <<Tok("1,000", 1000)>>, <<>>),
           Line(NoHead, <<"REVENUE", ":">>, <<Tok("900", 900), Tok("1,000", 1000)>>, <<>>) }

HeadingDocs == { [lines |-> t, tables |-> None] : t \in UNION { [1..n -> HeadingTextLines] : n \in 0..MaxHeadLines } }

InitHeadings ==
    /\ doc \in HeadingDocs
    /\ pc = "start"
    /\ scale = 1
    /\ unit_label = "units"
    /\ sections = <<>>
    /\ parsed = None
    /\ step4 = None
    /\ ran = <<>>
    /\ raised = "none"
    /\ seen = None
    /\ trend = None
    /\ req = None
    /\ fname = None
    /\ call = None

SpecHeadings == InitHeadings /\ [][Next]_vars

\* ------------------------------------------------------------------------
\* Texts for the order of the steps
\*
\* Longer texts over fewer lines: a unit declaration and balance-sheet totals
\* ahead of a profit-and-loss heading, so that one text can leave both the
\* section-based balance sheet and the section-based pnl empty while both
\* fallbacks find something.

MaxStepLines == 4

StepLines ==
    { l \in Lines :
        \/ l.head # NoHead
        \/ l.words = <<"RS", "IN", "THOUSAND">>
        \/ l.words \in {<<"REVENUE">>, <<"REVENUE", "FOR", "THE", "YEAR">>}
        \/ (l.words \in {<<"TOTAL", "ASSETS">>, <<"TOTAL", "EQUITY">>}
              /\ Len(l.toks) = 1 /\ l.toks[1].ok /\ l.toks[1].digits = 1000) }

\* The tables argument: None, an empty list, or a list holding one table.
TableInputs == { None, Some(<<>>), Some(<<<<"row">>>>) }

StepDocs ==
    { [lines |-> t, tables |-> tb] :
        t \in UNION { [1..n -> StepLines] : n \in 0..MaxStepLines }, tb \in TableInputs }

InitSteps ==
    /\ doc \in StepDocs
    /\ pc = "start"
    /\ scale = 1
    /\ unit_label = "units"
    /\ sections = <<>>
    /\ parsed = None
    /\ step4 = None
    /\ ran = <<>>
    /\ raised = "none"
    /\ seen = None
    /\ trend = None
    /\ req = None
    /\ fname = None
    /\ call = None

SpecSteps == InitSteps /\ [][Next]_vars

\* ------------------------------------------------------------------------
\* One section text extracted under two scales
\*
\* Small amounts, so that the largest multiplier keeps them in range: a
\* short label with a small amount, with an amount of zero and with a
\* negative amount, a long label, a total, and a note reference.
\* ------------------------------------------------------------------------
MaxScaleLines == 2

Scales == {1, 1000, 100000, 10000000}

ScaleLines ==
    { Line(NoHead, <<"CASH">>, <<Tok("50", 50)>>, <<>>),
      Line(NoHead, <<"CASH">>, <<Tok("0", 0)>>, <<>>),
      Line(NoHead, <<"LOANS">>, <<ParenTok("(50)", 50)>>, <<>>),
      Line(NoHead, <<"OTHER", "CURRENT", "ASSETS">>, <<Tok("50", 50)>>, <<>>),
      Line(NoHead, <<"TOTAL", "ASSETS">>, <<Tok("150", 150), Tok("120", 120)>>, <<>>),
      Line(NoHead, <<"Notes">>, <<Tok("5", 5)>>, <<>>) }

ScaleTexts == UNION { [1..n -> ScaleLines] : n \in 0..MaxScaleLines }

InitScales ==
    /\ doc = [lines |-> <<>>]
    /\ pc = "done"
    /\ scale = 1
    /\ unit_label = "units"
    /\ sections = <<>>
    /\ parsed = None
    /\ step4 = None
    /\ ran = <<>>
    /\ raised = "none"
    /\ seen = None
    /\ trend = None
    /\ req = None
    /\ fname = None
    /\ \E t \in ScaleTexts : \E s1 \in Scales : \E s2 \in Scales :
          call = [fn |-> "_extract_table_like_section",
                  arg |-> [block |-> Block(t, 1, Len(t) + 1), first |-> s1, second |-> s2],
                  result |-> None, pc |-> "call"]

\* The same section text extracted once under each of the two scales.
ExtractAtScales ==
    /\ Calling("_extract_table_like_section")
    /\ call' = [call EXCEPT
                   !.result = Some([first |-> _extract_table_like_section(call.arg.block,
                                                                          call.arg.first),
                                    second |-> _extract_table_like_section(call.arg.block,
                                                                           call.arg.second)]),
                   !.pc = "done"]
    /\ CallIdle

NextScales == ExtractAtScales

SpecScales == InitScales /\ [][NextScales]_vars

\* ------------------------------------------------------------------------
\* Properties
\* ------------------------------------------------------------------------
Range(f) == { f[i] : i \in DOMAIN f }

Returned == pc = "done" /\ raised = "none"

\* No line of the text starts a heading phrase of any section kind.
NoHeadingMatches(ls) == \A i \in 1..Len(ls) : ls[i].head = NoHead

AfterSplit == pc \notin {"start", "scale", "split"} /\ raised = "none"

\* No line of the text holds a numeric token.
NoTokens(ls) == \A i \in 1..Len(ls) : ls[i].toks = <<>>

AllEmptySections ==
    [balance_sheet |-> <<>>, pnl |-> EmptyMap, cash_flow |-> EmptyMap,
     changes_in_equity |-> EmptyMap]

C2_ShortCircuitExactAndTerminal ==
    /\ ("short_circuit" \in Range(ran) => pc = "done")
    /\ (pc \in {"pnl_fb", "bs_fb", "validate"} =>
            HasSection(sections, "balance_sheet") \/ HasSection(sections, "pnl"))
    /\ (Returned =>
          /\ ("short_circuit" \in Range(ran)) <=>
                (~HasSection(sections, "balance_sheet") /\ ~HasSection(sections, "pnl"))
          /\ ("short_circuit" \in Range(ran) =>
                /\ ran = <<"scale", "split", "short_circuit">>
                /\ step4 = None
                /\ parsed[1].sections = EmptyMap
                /\ parsed[1].validation_warning = None))

C2_Witness ==
    /\ Returned
    /\ "short_circuit" \in Range(ran)
    /\ HasSection(sections, "cash_flow")

\* C3: when no heading phrase matches in a non-empty text, the section map
\* is the single entry balance_sheet whose block is the entire text.
C3_NoHeadingWholeTextBlock ==
    (AfterSplit /\ NoHeadingMatches(doc.lines)) =>
        sections = <<[name |-> "balance_sheet", start |-> 0,
                      block |-> [lines |-> doc.lines, len |-> TextLen(doc.lines)]]>>

C3_Witness ==
    /\ pc = "check"
    /\ NoHeadingMatches(doc.lines)
    /\ Len(doc.lines) >= 2
    /\ Len(sections) = 1

\* The numbers the numeric tokens of the text parse to.
TokenValues(ls) ==
    { parse_number(ls[i].toks[j])[1] :
        <<i, j>> \in { q \in (1..Len(ls)) \X (1..2) :
                         /\ q[2] <= Len(ls[q[1]].toks)
                         /\ parse_number(ls[q[1]].toks[q[2]]) # None } }

\* The numbers stored in the sections of a parsed document.
ItemValues(it) ==
    { it[f][1] : f \in { g \in (DOMAIN it) \cap {"current_period", "previous_period"} :
                           it[g] # None } }

EntryValues(e) == { e[f][1] : f \in { g \in DOMAIN e : e[g] # None } }

StoredValues(secs) ==
    IF secs = EmptyMap THEN {}
    ELSE UNION ({ ItemValues(secs.balance_sheet[i]) : i \in 1..Len(secs.balance_sheet) }
                \cup { EntryValues(secs[k][key]) :
                         <<k, key>> \in { q \in {"pnl", "cash_flow", "changes_in_equity"}
                                                \X UNION { DOMAIN secs[kk] :
                                                   kk \in {"pnl", "cash_flow", "changes_in_equity"} } :
                                          q[2] \in DOMAIN secs[q[1]] } })

\* C4: every number stored in the sections of a returned document is the
\* parsed value of a token of the text multiplied by the document's scale.
C4_EveryValueScaled ==
    Returned =>
        \A v \in StoredValues(parsed[1].sections) :
            \E x \in TokenValues(doc.lines) : v = x * parsed[1].scale

\* C5: a section that is non-empty after section-based extraction has the
\* same content after the fallbacks; they fill empty sections only.
C5_FallbacksNeverOverwrite ==
    (step4 # None /\ raised = "none") =>
        \A k \in DOMAIN step4[1] :
            step4[1][k] # <<>> => parsed[1].sections[k] = step4[1][k]

C5_Witness ==
    /\ Returned
    /\ "bs_fallback" \in Range(ran)
    /\ step4[1].pnl # <<>>
    /\ _extract_from_text(doc.lines).pnl # <<>>
    /\ parsed[1].sections.pnl = step4[1].pnl

\* Some line holds the label directly followed by a number that parses.
LabelThenNumber(ls, label) ==
    \E i \in 1..Len(ls) :
        /\ Len(ls[i].words) >= Len(label)
        /\ SubSeq(ls[i].words, Len(ls[i].words) - Len(label) + 1, Len(ls[i].words)) = label
        /\ ls[i].toks # <<>>
        /\ parse_number(ls[i].toks[1]) # None

\* C6: when no heading is detected but the text holds a TOTAL ASSETS label
\* followed by a number and a REVENUE label followed by a number, the
\* returned document has a balance-sheet entry for total assets and a P&L
\* entry for revenue.
C6_FallbackFindsAssetsAndRevenue ==
    (/\ Returned
     /\ NoHeadingMatches(doc.lines)
     /\ LabelThenNumber(doc.lines, <<"TOTAL", "ASSETS">>)
     /\ LabelThenNumber(doc.lines, <<"REVENUE">>))
        => /\ parsed[1].sections # EmptyMap
           /\ \E i \in 1..Len(parsed[1].sections.balance_sheet) :
                  ContainsPhrase(parsed[1].sections.balance_sheet[i].item,
                                 <<"TOTAL", "ASSETS">>)
           /\ \E key \in DOMAIN parsed[1].sections.pnl :
                  key = <<"Revenue">> \/ ContainsPhrase(key, <<"REVENUE">>)

\* C7: the call raises exactly when the text is empty, with the 400 error
\* and before any other step; for a non-empty text it returns a document,
\* whatever happens inside validation.
C7_RaisesIffEmpty ==
    /\ (raised # "none" =>
            /\ raised = "HTTP_400_BAD_REQUEST"
            /\ doc.lines = <<>>
            /\ ran = <<>>
            /\ parsed = None)
    /\ (pc = "done" /\ doc.lines = <<>> => raised = "HTTP_400_BAD_REQUEST")
    /\ (pc = "done" /\ doc.lines # <<>> => raised = "none" /\ parsed # None)

C7_Witness ==
    /\ Returned
    /\ doc.lines # <<>>
    /\ "validate" \in Range(ran)
    /\ _validate_basic_balance(parsed[1].sections.balance_sheet) = "ValueError"
    /\ parsed[1].validation_warning = Some("Balance mismatch")

\* The mismatch the balance rule describes, a side without a number
\* counting as zero.
ZeroIfMissing(found) ==
    IF found = None \/ found[1].current_period = None THEN 0
    ELSE found[1].current_period[1]

ClaimedMismatch(bs) ==
    LET a == FindItem(bs, <<"TOTAL", "ASSETS">>)
        e == FindItem(bs, <<"TOTAL", "EQUITY">>)
        l == FindItem(bs, <<"TOTAL", "LIABILITIES">>)
    IN  /\ a # None
        /\ (e # None \/ l # None)
        /\ a[1].current_period # None
        /\ Abs(a[1].current_period[1] - (ZeroIfMissing(e) + ZeroIfMissing(l)))
              > Tolerance(a[1].current_period[1])

\* C8: a validation_warning is attached exactly when the balance sheet has
\* a TOTAL ASSETS item and a TOTAL EQUITY or TOTAL LIABILITIES item and
\* |assets - (equity + liabilities)| > max(1, 0.001 * |assets|).
C8_WarningIffMismatch ==
    Returned =>
        (parsed[1].validation_warning # None
            <=> (parsed[1].sections # EmptyMap
                 /\ ClaimedMismatch(parsed[1].sections.balance_sheet)))

BlockEnd(e) == e.start + e.block.len

\* The structure of a section map: one block per kind, blocks that are
\* substrings of the text, disjoint and listed by increasing start.
WellFormedMap(ls, m) ==
    /\ \A i, j \in 1..Len(m) : m[i].name = m[j].name => i = j
    /\ \A i \in 1..Len(m) :
          /\ m[i].block.len = TextLen(m[i].block.lines)
          /\ \E a \in 1..Len(ls) : \E b \in a..Len(ls) :
                /\ LineStart(ls, a) = m[i].start
                /\ SubSeq(ls, a, b) = m[i].block.lines
    /\ \A i \in 1..(Len(m) - 1) : BlockEnd(m[i]) <= m[i + 1].start

C10_ConfidenceIffCurrent ==
    (Returned /\ parsed[1].sections # EmptyMap) =>
        \A i \in 1..Len(parsed[1].sections.balance_sheet) :
            LET it == parsed[1].sections.balance_sheet[i]
            IN  /\ it.confidence \in {"high", "low"}
                /\ it.confidence = "high" <=> it.current_period # None

C10_Witness ==
    /\ Returned
    /\ parsed[1].sections # EmptyMap
    /\ \E i, j \in 1..Len(parsed[1].sections.balance_sheet) :
          /\ parsed[1].sections.balance_sheet[i].current_period = None
          /\ parsed[1].sections.balance_sheet[i].confidence = "low"
          /\ parsed[1].sections.balance_sheet[j].current_period # None
          /\ parsed[1].sections.balance_sheet[j].confidence = "high"

LineItemFields == {"item", "current_period", "previous_period", "confidence"}

\* C11: every entry of the balance_sheet list of a returned document
\* carries the four fields item, current_period, previous_period and
\* confidence, whichever extraction path produced it.
C11_EveryItemHasFourFields ==
    (Returned /\ parsed[1].sections # EmptyMap) =>
        \A i \in 1..Len(parsed[1].sections.balance_sheet) :
            DOMAIN parsed[1].sections.balance_sheet[i] = LineItemFields

ClaimedItem(l, sc) ==
    LET n == Len(l.toks)
        k == IF n >= 2 THEN 2 ELSE 1
    IN  [item |-> _normalize_item_name(l.words \o Hashes(n - k)),
         current_period |-> Some(parse_number(l.toks[n - k + 1])[1] * sc),
         previous_period |-> IF k = 2 THEN Some(parse_number(l.toks[n])[1] * sc) ELSE None,
         confidence |-> "high"]

\* The fragment ends in one or two numeric tokens that are numbers.
EndsInNumbers(l) ==
    /\ l.toks # <<>>
    /\ l.after = <<>>
    /\ \A j \in Max(1, Len(l.toks) - 1)..Len(l.toks) : parse_number(l.toks[j]) # None

\* C13: a fragment that ends in two numeric tokens, holds no noise marker
\* and passes the post-filters yields the item (label, n1*scale, n2*scale,
\* "high"); one that ends in a single numeric token yields previous_period
\* null.
C13_TailTokensGiveItem ==
    (step4 # None /\ raised = "none") =>
        LET ls == GetSection(sections, "balance_sheet").lines
        IN  \A i \in 1..Len(ls) :
                (/\ EndsInNumbers(ls[i])
                 /\ ~IsNoise(ls[i])
                 /\ ~PostFilterDrops(ClaimedItem(ls[i], scale).item,
                                     ClaimedItem(ls[i], scale).current_period))
                    => \E j \in 1..Len(step4[1].balance_sheet) :
                           step4[1].balance_sheet[j] = ClaimedItem(ls[i], scale)

\* The words of the texts in which a noise marker stands, in any letter
\* case, alone or inside a longer word.
MarkerBearing ==
    {"DIN", "PARTNER", "DIRECTOR", "Director", "MUMBAI", "Mumbai", "LLP", "CFO",
     "SECRETARY", "INCLUDING"}

HoldsMarker(l) ==
    LET ws == l.words \o l.after
    IN  \/ \E i \in 1..Len(ws) : ws[i] \in MarkerBearing
        \/ ContainsPhrase(ws, <<"CHARTERED", "ACCOUNTANTS">>)

MarkerFree(l) == ~HoldsMarker(l)

\* C14: a fragment that holds a noise marker, in any letter case, yields no
\* line item even when it holds numeric tokens; the items of the other
\* fragments are what they would be without it, in fragment order.
C14_NoiseFragmentsYieldNothing ==
    (step4 # None /\ raised = "none") =>
        LET ls == GetSection(sections, "balance_sheet").lines
        IN  step4[1].balance_sheet = TableItems(SelectSeq(ls, MarkerFree), scale)

C14_Witness ==
    /\ step4 # None
    /\ raised = "none"
    /\ LET ls == GetSection(sections, "balance_sheet").lines
       IN  /\ Len(ls) = 3
           /\ HoldsMarker(ls[2])
           /\ ls[2].toks # <<>>
           /\ ls[2].words[1] = "Director"
           /\ Len(step4[1].balance_sheet) = 2
           /\ step4[1].balance_sheet[1].item = _normalize_item_name(ls[1].words)
           /\ step4[1].balance_sheet[2].item = _normalize_item_name(ls[3].words)
           /\ ls[1].words # ls[3].words

\* The key and the entry of a line that has the shape label number [number].
KvKey(l) == _normalize_item_name(l.words \o Hashes(Len(l.toks) - KvTail(l)))

KvEntry(l, sc) ==
    LET n == Len(l.toks)
    IN  [value |-> Scaled(parse_number(l.toks[n - KvTail(l) + 1]), sc),
         previous |-> IF KvTail(l) = 2 THEN Scaled(parse_number(l.toks[n]), sc) ELSE None]

KvSections == {"pnl", "cash_flow", "changes_in_equity"}

\* C15: the mapping of a key-value section has one entry for each label its
\* matching lines normalize to and no other, and the entry of a label is
\* the value/previous pair of the last matching line with that label.
C15_LastLineWins ==
    (step4 # None /\ raised = "none") =>
        \A k \in KvSections :
            LET ls == GetSection(sections, k).lines
                hit == { i \in 1..Len(ls) : KvTail(ls[i]) > 0 }
                m == step4[1][k]
            IN  /\ DOMAIN m = { KvKey(ls[i]) : i \in hit }
                /\ \A i \in hit :
                       (\A j \in hit : KvKey(ls[j]) = KvKey(ls[i]) => j <= i)
                           => m[KvKey(ls[i])] = KvEntry(ls[i], scale)

C15_Witness ==
    /\ step4 # None
    /\ raised = "none"
    /\ LET ls == GetSection(sections, "pnl").lines
       IN  /\ Len(ls) = 3
           /\ KvTail(ls[1]) = 0
           /\ KvTail(ls[2]) > 0
           /\ KvTail(ls[3]) > 0
           /\ KvKey(ls[2]) = KvKey(ls[3])
           /\ KvEntry(ls[2], scale) # KvEntry(ls[3], scale)
           /\ DOMAIN step4[1].pnl = {KvKey(ls[3])}
           /\ step4[1].pnl[KvKey(ls[3])] = KvEntry(ls[3], scale)

\* C16: for the two greatest period keys and every metric that is a number
\* in both, growth_pct is (latest - previous) / |previous| * 100 rounded to
\* two decimals when previous is not zero, and null when it is zero.
C16_GrowthOfLatestPair ==
    (trend # None /\ trend.pc = "done" /\ trend.comparisons # None) =>
        LET c == trend.comparisons[1]
            keys == DOMAIN trend.timeseries
        IN  /\ \A k \in keys : Rank(k) <= Rank(c.periods[2])
            /\ \A k \in keys \ {c.periods[2]} : Rank(k) <= Rank(c.periods[1])
            /\ \A m \in DOMAIN c.metrics :
                  LET l == trend.timeseries[c.periods[2]].kpis[m]
                      q == trend.timeseries[c.periods[1]].kpis[m]
                  IN  /\ c.metrics[m].latest = l
                      /\ c.metrics[m].previous = q
                      /\ (q = 0 => c.metrics[m].growth_pct = None)
                      /\ (q # 0 => /\ c.metrics[m].growth_pct # None
                                   /\ 2 * Abs(c.metrics[m].growth_pct[1] * Abs(q)
                                              - (l - q) * 10000) <= Abs(q))

\* previous 100 and latest 120 give 20.0, a negative previous is divided by
\* its magnitude, and a previous of 0 gives null.
C16_Witness ==
    /\ trend # None
    /\ trend.pc = "done"
    /\ trend.comparisons # None
    /\ {"revenue", "net_profit", "free_cash_flow"} \subseteq DOMAIN trend.comparisons[1].metrics
    /\ trend.comparisons[1].metrics["revenue"].previous = Hundredths(100)
    /\ trend.comparisons[1].metrics["revenue"].latest = Hundredths(120)
    /\ trend.comparisons[1].metrics["revenue"].growth_pct = Some(2000)
    /\ trend.comparisons[1].metrics["net_profit"].previous < 0
    /\ trend.comparisons[1].metrics["net_profit"].growth_pct = Some(16000)
    /\ trend.comparisons[1].metrics["free_cash_flow"].previous = 0
    /\ trend.comparisons[1].metrics["free_cash_flow"].growth_pct = None

\* ------------------------------------------------------------------------
\* C17: whichever way analyze_pdf ends (normal return, failure while reading
\* the upload, failure inside _run_analysis), once it has finished the
\* temporary file of the upload no longer exists, and an OCR service that
\* _run_analysis opened has had close() called on it.
C17_TempFileGoneAndOcrClosed ==
    At("finished") =>
        /\ ~req.exists
        /\ (req.ocr = "opened" => req.closed # "no")

\* The part of C17 about the OCR service alone.
C17_OcrClosed == At("finished") /\ req.ocr = "opened" => req.closed # "no"

\* The temporary file survives the handler exactly when its handle was
\* still open at the finally clause on a platform that refuses to remove a
\* file in use: the failures before tmp.close().
C17_FileKeptOnlyWithOpenHandle ==
    At("finished") /\ req.exists =>
        /\ req.platform = "windows"
        /\ req.open
        /\ req.failed_at \in {"read", "write"}

C17_FileKept == At("finished") /\ req.exists /\ req.failed_at = "read"

\* ------------------------------------------------------------------------
\* C18: extract_company_name returns the first non-empty token of the base
\* name that is not a 32-character hex string, uppercased, and 'UNKNOWN'
\* whenever there is no such token: empty file name, only delimiters, only
\* UUID-like tokens.
ClaimedCompany(f) ==
    LET tokens == Tokens(Base(f))
        usable == { i \in 1..Len(tokens) : Usable(tokens[i]) }
    IN  IF usable # {} THEN UpperAll(tokens[MinOf(usable)]) ELSE Unknown

NameReturned == fname # None /\ fname.pc = "done"

C18_FirstTokenOrUnknown ==
    NameReturned => fname.result = Some(ClaimedCompany(fname.filename))

\* Where a usable token exists the function returns it uppercased, UUID-like
\* tokens and empty tokens before it skipped.
C18_FirstUsableTokenUppercased ==
    NameReturned =>
        LET tokens == Tokens(Base(fname.filename))
        IN  \A i \in 1..Len(tokens) :
               (Usable(tokens[i]) /\ \A j \in 1..(i - 1) : ~Usable(tokens[j]))
                  => fname.result = Some(UpperAll(tokens[i]))

C18_UuidSkipped ==
    /\ NameReturned
    /\ fname.filename.pieces = <<HexMixed, "_", "Tata">>
    /\ fname.result = Some(<<"TATA">>)

C18_OnlyDelimitersKept ==
    /\ NameReturned
    /\ fname.filename.pieces = <<"_", "_", "_">>
    /\ fname.result = Some(<<"_", "_", "_">>)

\* ------------------------------------------------------------------------
\* C19: for each section kind the splitter records one start position, the
\* first match of the first phrase, in phrase-list order, that matches
\* anywhere in the text, even when a later phrase of the kind matches at an
\* earlier position; no kind has two positions.
PhraseMatches(ls, k, p) == \E i \in 1..Len(ls) : ls[i].head = Heading(k, p)

WinningPhrase(ls, k) ==
    CHOOSE p \in 1..PhraseCount(k) :
        /\ PhraseMatches(ls, k, p)
        /\ \A q \in 1..(p - 1) : ~PhraseMatches(ls, k, q)

ClaimedStart(ls, k) ==
    LET p == WinningPhrase(ls, k)
        i == CHOOSE n \in 1..Len(ls) :
                /\ ls[n].head = Heading(k, p)
                /\ \A m \in 1..(n - 1) : ls[m].head # Heading(k, p)
    IN  LineStart(ls, i)

C19_FirstListedPhraseWins ==
    (AfterSplit /\ ~NoHeadingMatches(doc.lines)) =>
        /\ \A n \in 1..Len(sections) :
              sections[n].start = ClaimedStart(doc.lines, sections[n].name)
        /\ \A n, m \in 1..Len(sections) :
              sections[n].name = sections[m].name => n = m

\* The statement of financial position comes first and the balance sheet
\* after it: the balance-sheet section starts at the later heading.
C19_Witness ==
    /\ AfterSplit
    /\ Len(doc.lines) >= 2
    /\ doc.lines[1].head = Heading("balance_sheet", 2)
    /\ doc.lines[2].head = Heading("balance_sheet", 1)
    /\ \E n \in 1..Len(sections) :
          /\ sections[n].name = "balance_sheet"
          /\ sections[n].start = LineStart(doc.lines, 2)
          /\ sections[n].start > 0

\* ------------------------------------------------------------------------
\* C20: parse_financial_document runs its steps in one fixed order and never
\* goes back: scale, split, short-circuit check, section extraction, P&L
\* fallback, balance-sheet fallback, validation.  The P&L fallback runs
\* whenever pnl is empty after section extraction, whatever the balance
\* sheet holds; it runs before the document-wide fallback, so what it found
\* is what pnl keeps when both run; validation comes last and sees the
\* balance sheet with the fallback's entries.
StepOrder ==
    <<"scale", "split", "short_circuit", "extract", "pnl_fallback", "bs_fallback",
      "validate">>

StepRank(s) == CHOOSE i \in 1..Len(StepOrder) : StepOrder[i] = s

InFixedOrder(r) ==
    /\ \A i \in 1..Len(r) : \E j \in 1..Len(StepOrder) : StepOrder[j] = r[i]
    /\ \A i, j \in 1..Len(r) : i < j => StepRank(r[i]) < StepRank(r[j])
    /\ \A i \in 1..Len(r) : r[i] = "short_circuit" => i = Len(r)

PastPnlFallback == pc \in {"bs_fb", "validate", "done"} /\ step4 # None

C20_FixedOrderAndFallbacks ==
    /\ InFixedOrder(ran)
    /\ PastPnlFallback =>
          ("pnl_fallback" \in Range(ran) <=> step4[1].pnl = <<>>)
    /\ (pc \in {"validate", "done"} /\ step4 # None) =>
          ("bs_fallback" \in Range(ran) <=> step4[1].balance_sheet = <<>>)
    /\ (pc = "done" /\ {"pnl_fallback", "bs_fallback"} \subseteq Range(ran)
          /\ _extract_pnl_from_text(doc.lines, scale) # <<>>) =>
          parsed[1].sections.pnl = _extract_pnl_from_text(doc.lines, scale)
    /\ (pc = "done" /\ step4 # None) =>
          /\ ran[Len(ran)] = "validate"
          /\ LET caught == CatchValidation(
                               _validate_basic_balance(parsed[1].sections.balance_sheet))
             IN  /\ parsed[1].validation_warning = caught.warning
                 /\ raised = caught.raised

\* Both fallbacks ran on a text with a unit declaration: pnl holds what the
\* P&L fallback found, which is not what the document-wide fallback would
\* have put there, and validation ran over a balance sheet the fallback
\* filled.
C20_Witness ==
    /\ pc = "done"
    /\ ran = <<"scale", "split", "extract", "pnl_fallback", "bs_fallback", "validate">>
    /\ step4[1].pnl = <<>>
    /\ step4[1].balance_sheet = <<>>
    /\ parsed[1].sections.pnl # <<>>
    /\ parsed[1].sections.pnl = _extract_pnl_from_text(doc.lines, scale)
    /\ _extract_from_text(doc.lines).pnl # <<>>
    /\ _extract_from_text(doc.lines).pnl # parsed[1].sections.pnl
    /\ parsed[1].sections.balance_sheet # <<>>
    /\ parsed[1].sections.balance_sheet = _extract_from_text(doc.lines).balance_sheet

\* ------------------------------------------------------------------------
\* C21: the table-like extractor emits no item whose label starts with
\* "note" or "annexure" in any letter case, and none whose current value is
\* under 100 in magnitude while its label has fewer than three words; a
\* fragment with a numeric token that reaches the two tests and fails
\* neither is emitted.
StartsAsNote(name) ==
    name # <<>> /\ name[1] \in {"NOTE", "Note", "Notes", "NOTES", "ANNEXURE", "Annexure"}

TinyUnlabelled(name, curr) == curr # None /\ Abs(curr[1]) < 100 /\ Len(name) < 3

CandidateName(l) == _normalize_item_name(FragName(l))
CandidateValue(l, sc) == Scaled(parse_number(FragVals(l)[1]), sc)

ClaimedCut(n) ==
    LET marks == { q \in n.punct : MinCut <= q /\ q <= MaxLabel }
    IN  IF n.len <= MaxLabel THEN [from |-> 0, to |-> n.len]
        ELSE IF marks # {} THEN TrimSlice(n, [from |-> 0, to |-> MinOf(marks)])
        ELSE TrimSlice(n, HardCut(n))

C22_LeadingTextOfName ==
    Done("_normalize_item_name") =>
        /\ call.result[1].to - call.result[1].from <= MaxLabel
        /\ call.result[1].from = 0
        /\ call.result[1] = ClaimedCut(call.arg)

\* The length bound alone.
C22_AtMost120 ==
    Done("_normalize_item_name") => call.result[1].to - call.result[1].from <= MaxLabel

\* With a mark between positions 80 and 120 the result is the claimed one.
C22_MarkInWindow ==
    (Done("_normalize_item_name")
        /\ \E q \in call.arg.punct : MinCut <= q /\ q <= MaxLabel) =>
        call.result[1] = ClaimedCut(call.arg)

\* A name of 130 characters whose only mark is at position 125 loses its
\* first five characters.
C22_BeginningLost ==
    /\ Done("_normalize_item_name")
    /\ call.arg = [len |-> 130, punct |-> {125}, spaces |-> {}]
    /\ call.result = Some([from |-> 5, to |-> 125])

\* ------------------------------------------------------------------------
\* C23: for every year the pattern accepts, 2000 to 2099, the label of the
\* March branch, (year+1) % 100, is the label the other branch, year % 100
\* + 1, computes for that year; the quarter is Q1 for June, Q2 for
\* September, Q3 for December and Q4 for March, and June 30, 2024 gives
\* Q1 FY25.
ClaimedQuarter(month) ==
    IF month = "June" THEN "Q1" ELSE IF month = "September" THEN "Q2"
    ELSE IF month = "December" THEN "Q3" ELSE "Q4"

C23_BranchesAgree ==
    (Done("_detect_period_hint") /\ Accepted(call.arg)) =>
        /\ call.result # None
        /\ call.result[1].fy = (call.arg.year + 1) % 100
        /\ call.result[1].fy = (call.arg.year % 100) + 1
        /\ call.result[1].quarter = ClaimedQuarter(call.arg.month)
        /\ (call.arg = [month |-> "June", year |-> 2024] =>
               call.result[1] = [quarter |-> "Q1", fy |-> 25])

\* The two branches agree on every accepted year but the last.
C23_AgreeBeforeLastYear ==
    (Done("_detect_period_hint") /\ Accepted(call.arg) /\ call.arg.year < LastYear) =>
        /\ call.result[1].fy = (call.arg.year + 1) % 100
        /\ call.result[1].fy = (call.arg.year % 100) + 1
        /\ call.result[1].quarter = ClaimedQuarter(call.arg.month)

\* December 2099 is labelled FY100, where the March branch gives FY0.
C23_LastYear ==
    /\ Done("_detect_period_hint")
    /\ call.arg = [month |-> "December", year |-> 2099]
    /\ call.result = Some([quarter |-> "Q3", fy |-> 100])
    /\ MarchLabel(call.arg.year) = 0

\* ------------------------------------------------------------------------
\* C24: _extract_meta discards every candidate that holds a blacklisted
\* term and returns the longest candidate left, so the company it returns
\* never holds a blacklisted term; the company is "Unknown" when the
\* candidate pattern, the "For <Name> Ltd/Limited" pattern and the
\* "Regd. Office" pattern all fail.
HoldsBlacklisted(name) ==
    \E i \in 1..Len(name) :
        name[i] \in {"BSE", "NSE", "EXCHANGE", "SOCIETE", "LUXEMBOURG", "SEBI", "BOARD",
                     "PHIROZE", "STOCK"}

Survivors(text) ==
    SelectSeq(text, LAMBDA seg : Last(seg) = "LIMITED" /\ ~HoldsBlacklisted(seg))

AllPatternsFail(text) ==
    \A i \in 1..Len(text) :
        /\ Last(text[i]) \notin {"LIMITED", "Ltd", "Ltd."}
        /\ Last(text[i]) # "Office"

C24_NoBlacklistedCompany ==
    Done("_extract_meta") =>
        /\ ~HoldsBlacklisted(call.result[1])
        /\ (Survivors(call.arg) # <<>> =>
               /\ \E i \in 1..Len(Survivors(call.arg)) : call.result[1] = Survivors(call.arg)[i]
               /\ \A i \in 1..Len(Survivors(call.arg)) :
                     NameChars(Survivors(call.arg)[i]) <= NameChars(call.result[1]))
        /\ (AllPatternsFail(call.arg) => call.result[1] = UnknownCompany)

\* The other parts of C24: the longest surviving candidate, and "Unknown"
\* when every pattern fails.
C24_LongestSurvivorOrUnknown ==
    Done("_extract_meta") =>
        /\ (Survivors(call.arg) # <<>> =>
               /\ ~HoldsBlacklisted(call.result[1])
               /\ \E i \in 1..Len(Survivors(call.arg)) : call.result[1] = Survivors(call.arg)[i]
               /\ \A i \in 1..Len(Survivors(call.arg)) :
                     NameChars(Survivors(call.arg)[i]) <= NameChars(call.result[1]))
        /\ (AllPatternsFail(call.arg) => call.result[1] = UnknownCompany)

\* A text that names only a stock exchange: the exchange is the company.
C24_ExchangeReturned ==
    /\ Done("_extract_meta")
    /\ call.arg = << <<"ANNUAL", "REPORT">>,
                     <<"NATIONAL", "STOCK", "EXCHANGE", "OF", "INDIA", "LIMITED">> >>
    /\ call.result = Some(<<"NATIONAL", "STOCK", "EXCHANGE", "OF", "INDIA", "Limited">>)

\* ------------------------------------------------------------------------
\* The scale-correction heuristic of compute_kpis
\* ------------------------------------------------------------------------
\* The amounts of the document as compute_kpis finds them.
AmountOf(section, label) ==
    LET hits == { i \in 1..Len(section) : section[i].key = label }
    IN  IF hits = {} THEN None ELSE section[MinOf(hits)].value

RowAmount(items, label) ==
    LET hits == { i \in 1..Len(items) : items[i].item = label }
    IN  IF hits = {} THEN None ELSE items[MinOf(hits)].current_period

\* The heuristic's condition holds and one of its two rebinding branches runs.
HeuristicRebinds(p) ==
    LET revenue == AmountOf(p.sections[1].pnl, <<"REVENUE">>)
        net_profit == AmountOf(p.sections[1].pnl, <<"NET", "PROFIT">>)
    IN  /\ revenue # None /\ IsNumber(revenue) /\ revenue[1] # 0
        /\ net_profit # None /\ IsNumber(net_profit)
        /\ net_profit[1] > 5 * revenue[1]
        /\ (revenue[1] < 1000 \/ net_profit[1] > 1000000)

\* The value a key of the result would hold were the block absent: the raw
\* amount, or the ratio of the raw amounts.
Unscaled(p, k) ==
    LET revenue == AmountOf(p.sections[1].pnl, <<"REVENUE">>)
        net_profit == AmountOf(p.sections[1].pnl, <<"NET", "PROFIT">>)
        total_assets == RowAmount(p.sections[1].balance_sheet, <<"TOTAL", "ASSETS">>)
        total_equity == RowAmount(p.sections[1].balance_sheet, <<"TOTAL", "EQUITY">>)
        total_liabilities ==
            RowAmount(p.sections[1].balance_sheet, <<"TOTAL", "LIABILITIES">>)
    IN  CASE k = "revenue" -> revenue[1] * 100
          [] k = "net_profit" -> net_profit[1] * 100
          [] k = "net_profit_margin_pct" -> RoundRatio(net_profit[1], 10000, revenue[1])
          [] k = "debt_to_equity" -> RoundRatio(total_liabilities[1], 100, total_equity[1])
          [] k = "equity_to_assets_pct" -> RoundRatio(total_equity[1], 10000, total_assets[1])
          [] k = "asset_turnover_ratio" -> RoundRatio(revenue[1], 100, total_assets[1])
          [] k = "return_on_equity_pct" -> RoundRatio(net_profit[1], 10000, total_equity[1])

RatioKeys ==
    { "net_profit_margin_pct", "debt_to_equity", "equity_to_assets_pct",
      "asset_turnover_ratio", "return_on_equity_pct" }

\* C25: the scale-correction heuristic changes nothing in the result: when
\* its condition holds and it rebinds revenue or net_profit, the result
\* still holds the raw revenue and net profit and the ratios of the raw
\* amounts.
C25_HeuristicChangesNothing ==
    (Done("compute_kpis") /\ call.arg.sections # None /\ HeuristicRebinds(call.arg))
        => /\ {"revenue", "net_profit", "net_profit_margin_pct"} \subseteq DOMAIN call.result[1]
           /\ \A k \in DOMAIN call.result[1] \cap (RatioKeys \cup {"revenue", "net_profit"}) :
                 call.result[1][k] = Unscaled(call.arg, k)

\* Both rebinding branches are met: a revenue below 1000, and a net profit
\* above 1,000,000 next to a revenue of 1000.
C25_Witness ==
    /\ Done("compute_kpis") /\ call.arg.sections # None /\ HeuristicRebinds(call.arg)
    /\ AmountOf(call.arg.sections[1].pnl, <<"REVENUE">>) = Some(1000)
    /\ "return_on_equity_pct" \in DOMAIN call.result[1]

C25_WitnessSmallRevenue ==
    /\ Done("compute_kpis") /\ call.arg.sections # None /\ HeuristicRebinds(call.arg)
    /\ AmountOf(call.arg.sections[1].pnl, <<"REVENUE">>) = Some(7)
    /\ "asset_turnover_ratio" \in DOMAIN call.result[1]

\* ------------------------------------------------------------------------
\* Free cash flow
\* ------------------------------------------------------------------------
OperatingSnippets ==
    << <<"NET", "CASH", "GENERATED">>, <<"OPERATING">>,
       <<"CASH", "GENERATED", "FROM", "OPERATIONS">> >>

CapexSnippets == << <<"Purchase">>, <<"CAPEX">> >>

\* A label holds a snippet whatever the case of either.
MatchesAnyCase(label, key_snippets) ==
    \E j \in 1..Len(key_snippets) :
        ContainsPhrase(UpperWords(label), UpperWords(key_snippets[j]))

\* The value of the first label that holds a snippet, case ignored.
AnyCaseValue(section, key_snippets) ==
    LET hits == { i \in 1..Len(section) : MatchesAnyCase(section[i].key, key_snippets) }
    IN  IF hits = {} THEN None ELSE section[MinOf(hits)].value

\* C28: when the cash-flow mapping holds a label matching an operating-cash
\* snippet and a label matching a capex snippet ('Purchase', 'CAPEX'), case
\* ignored, the result holds free_cash_flow = operating cash flow - capex.
C28_FreeCashFlowAnyCase ==
    (Done("compute_kpis") /\ call.arg.sections # None)
        => LET cf == call.arg.sections[1].cash_flow
               operating == AnyCaseValue(cf, OperatingSnippets)
               capex == AnyCaseValue(cf, CapexSnippets)
           IN  (operating # None /\ capex # None)
                   => /\ "free_cash_flow" \in DOMAIN call.result[1]
                      /\ call.result[1]["free_cash_flow"] = (operating[1] - capex[1]) * 100

\* What the code does: free cash flow is stored exactly when an operating
\* label and a label whose capitals hold CAPEX are met; the snippet
\* 'Purchase' is compared as written with the label in capitals and so
\* matches no label.
C28_FreeCashFlowOnCapex ==
    (Done("compute_kpis") /\ call.arg.sections # None)
        => LET cf == call.arg.sections[1].cash_flow
               operating == AnyCaseValue(cf, OperatingSnippets)
               capex == AnyCaseValue(cf, <<<<"CAPEX">>>>)
           IN  IF operating # None /\ capex # None
               THEN /\ "free_cash_flow" \in DOMAIN call.result[1]
                    /\ call.result[1]["free_cash_flow"] = (operating[1] - capex[1]) * 100
               ELSE "free_cash_flow" \notin DOMAIN call.result[1]

\* A statement with an operating line and a 'Purchase of property' line has
\* been computed and holds no free cash flow.
C28_PurchaseLineIgnored ==
    /\ Done("compute_kpis") /\ call.arg.sections # None
    /\ \E i \in 1..Len(call.arg.sections[1].cash_flow) :
          call.arg.sections[1].cash_flow[i].key[1] = "Purchase"
    /\ "free_cash_flow" \notin DOMAIN call.result[1]

\* ------------------------------------------------------------------------
\* Failures inside compute_kpis
\* ------------------------------------------------------------------------
\* The two amounts a ratio is computed from.
Operands(p, k) ==
    LET revenue == AmountOf(p.sections[1].pnl, <<"REVENUE">>)
        net_profit == AmountOf(p.sections[1].pnl, <<"NET", "PROFIT">>)
        total_assets == RowAmount(p.sections[1].balance_sheet, <<"TOTAL", "ASSETS">>)
        total_equity == RowAmount(p.sections[1].balance_sheet, <<"TOTAL", "EQUITY">>)
        total_liabilities ==
            RowAmount(p.sections[1].balance_sheet, <<"TOTAL", "LIABILITIES">>)
    IN  CASE k = "net_profit_margin_pct" -> [num |-> net_profit, den |-> revenue]
          [] k = "debt_to_equity" -> [num |-> total_liabilities, den |-> total_equity]
          [] k = "equity_to_assets_pct" -> [num |-> total_equity, den |-> total_assets]
          [] k = "asset_turnover_ratio" -> [num |-> revenue, den |-> total_assets]
          [] k = "return_on_equity_pct" -> [num |-> net_profit, den |-> total_equity]

\* The computation of ratio k was entered and stored nothing: it failed.
RatioFailed(p, kpis, k) ==
    /\ Truthy(Operands(p, k).num) /\ Truthy(Operands(p, k).den)
    /\ k \notin DOMAIN kpis

C26_ReturnsAndGuardsDenominators ==
    Done("compute_kpis")
        => /\ call.result # None
           /\ call.arg.sections = None => DOMAIN call.result[1] = {"error"}
           /\ "error" \in DOMAIN call.result[1] => "summary" \notin DOMAIN call.result[1]
           /\ call.arg.sections # None
                => \A k \in RatioKeys \cap DOMAIN call.result[1] :
                      LET den == Operands(call.arg, k).den
                      IN  den # None /\ IsNumber(den) /\ den[1] # 0

\* A failure that leaves no trace: the revenue is a string, the asset
\* turnover was attempted and is missing, and the result holds no "error".
C26_SilentFailure ==
    /\ Done("compute_kpis") /\ call.arg.sections # None
    /\ RatioFailed(call.arg, call.result[1], "asset_turnover_ratio")
    /\ "error" \notin DOMAIN call.result[1]
    /\ "summary" \in DOMAIN call.result[1]

\* An "error" field next to metrics computed before the failure.
C26_ErrorNextToMetrics ==
    /\ Done("compute_kpis")
    /\ {"error", "return_on_equity_pct", "net_profit"} \subseteq DOMAIN call.result[1]

\* aggregate_periods ends for every input, and a document without sections
\* that is the last under its key is recorded with an "error" field.
C26_AggregateRecordsError ==
    (trend # None /\ trend.pc = "done" /\ trend.parsed_list # <<>>)
        => LET last == trend.parsed_list[Len(trend.parsed_list)]
           IN  last.sections = None
                   => \E k \in DOMAIN trend.timeseries :
                         /\ trend.timeseries[k].meta = last.meta
                         /\ "error" \in DOMAIN trend.timeseries[k].kpis

\* ------------------------------------------------------------------------
\* The keys of the timeseries
\* ------------------------------------------------------------------------
\* The key a document names itself: its period hint, else its company.
NamedKey(p) ==
    IF p.meta.period_hint # None THEN p.meta.period_hint
    ELSE p.meta.company

NamedKeys(list) == { NamedKey(list[i])[1] : i \in { j \in 1..Len(list) : NamedKey(list[j]) # None } }
Unnamed(list) == { i \in 1..Len(list) : NamedKey(list[i]) = None }

\* The last document of the input that names key k.
LastNaming(list, k) ==
    CHOOSE i \in 1..Len(list) :
        /\ NamedKey(list[i]) = Some(k)
        /\ \A j \in (i + 1)..Len(list) : NamedKey(list[j]) # Some(k)

SynthKeySet == { SynthKeys[i] : i \in 1..Len(SynthKeys) }

\* C27: a document is keyed by its period hint, else its company, else a
\* synthesized period_N label; the timeseries holds one entry per distinct
\* key, the entry of a key named by several documents holds the meta and
\* KPIs of the last of them, and comparisons exist exactly when the
\* timeseries holds two keys or more.
C27_OneEntryPerKeyLastWins ==
    (trend # None /\ trend.pc = "done")
        => LET list == trend.parsed_list
               ts == trend.timeseries
           IN  /\ NamedKeys(list) \subseteq DOMAIN ts
               /\ (DOMAIN ts) \ NamedKeys(list) \subseteq SynthKeySet
               /\ Cardinality((DOMAIN ts) \ NamedKeys(list)) = Cardinality(Unnamed(list))
               /\ \A k \in NamedKeys(list) :
                     LET p == list[LastNaming(list, k)]
                     IN  ts[k] = [meta |-> p.meta, kpis |-> compute_kpis(p)]
               /\ \A i \in Unnamed(list) :
                     \E k \in (DOMAIN ts) \cap SynthKeySet :
                         ts[k] = [meta |-> list[i].meta, kpis |-> compute_kpis(list[i])]
               /\ (trend.comparisons # None) <=> (Cardinality(DOMAIN ts) >= 2)

\* Three documents, the first and the third with the period hint "Q1 FY25"
\* and different amounts: two entries, the one of "Q1 FY25" holding the
\* third document, and comparisons between the two keys.
C27_Witness ==
    /\ trend # None
    /\ trend.pc = "done"
    /\ Len(trend.parsed_list) = 3
    /\ NamedKey(trend.parsed_list[1]) = Some("Q1 FY25")
    /\ NamedKey(trend.parsed_list[2]) = Some("Q4 FY24")
    /\ NamedKey(trend.parsed_list[3]) = Some("Q1 FY25")
    /\ trend.parsed_list[1] # trend.parsed_list[3]
    /\ DOMAIN trend.timeseries = {"Q1 FY25", "Q4 FY24"}
    /\ trend.timeseries["Q1 FY25"].kpis = compute_kpis(trend.parsed_list[3])
    /\ trend.timeseries["Q1 FY25"].kpis # compute_kpis(trend.parsed_list[1])
    /\ trend.comparisons # None

\* Two documents under one key leave a single entry and no comparisons.
C27_WitnessSingleKey ==
    /\ trend # None
    /\ trend.pc = "done"
    /\ Len(trend.parsed_list) = 2
    /\ Cardinality(DOMAIN trend.timeseries) = 1
    /\ trend.parsed_list[1] # trend.parsed_list[2]
    /\ trend.comparisons = None

\* ------------------------------------------------------------------------
\* The shape of the returned document
\* ------------------------------------------------------------------------
SectionKeys == {"balance_sheet", "pnl", "cash_flow", "changes_in_equity"}

\* A sequence of line items.
IsItemList(x) ==
    \A i \in 1..Len(x) : {"item", "current_period"} \subseteq DOMAIN x[i]

\* A mapping from labels to entries.
IsEntryMap(m) ==
    \A k \in DOMAIN m : Len(k) >= 1 /\ "value" \in DOMAIN m[k]

HasRun(step) == \E i \in 1..Len(ran) : ran[i] = step

\* C29: a document returned on the path that is not the short circuit has
\* sections of exactly the four keys, balance_sheet a sequence of items and
\* the other three mappings of entries, whichever fallbacks have run; its
\* tables are the tables given, or an empty sequence when none were given.
C29_FourSectionsAndTables ==
    (pc = "done" /\ parsed # None /\ HasRun("extract"))
        => /\ DOMAIN parsed[1].sections = SectionKeys
           /\ IsItemList(parsed[1].sections.balance_sheet)
           /\ \A k \in SectionKeys \ {"balance_sheet"} : IsEntryMap(parsed[1].sections[k])
           /\ parsed[1].tables = IF doc.tables = None THEN <<>> ELSE doc.tables[1]

\* Both fallbacks have run and both have found something, and the tables
\* given were not empty.
C29_Witness ==
    /\ pc = "done" /\ parsed # None
    /\ HasRun("pnl_fallback") /\ HasRun("bs_fallback")
    /\ parsed[1].sections.balance_sheet # <<>>
    /\ parsed[1].sections.pnl # <<>>
    /\ doc.tables = Some(<<<<"row">>>>)
    /\ parsed[1].tables = <<<<"row">>>>

\* The other combinations of fallbacks: none, the P&L one alone (with no
\* tables given), the balance-sheet one alone.
C29_WitnessNoFallback ==
    /\ pc = "done" /\ parsed # None /\ HasRun("extract")
    /\ ~HasRun("pnl_fallback") /\ ~HasRun("bs_fallback")
    /\ doc.tables = Some(<<>>)

C29_WitnessPnlFallbackOnly ==
    /\ pc = "done" /\ parsed # None
    /\ HasRun("pnl_fallback") /\ ~HasRun("bs_fallback")
    /\ doc.tables = None /\ parsed[1].tables = <<>>

C29_WitnessBsFallbackOnly ==
    /\ pc = "done" /\ parsed # None
    /\ ~HasRun("pnl_fallback") /\ HasRun("bs_fallback")
    /\ parsed[1].sections.pnl # <<>>

\* ------------------------------------------------------------------------
\* The scale and the fragments kept
\* ------------------------------------------------------------------------
\* An amount with its multiplier taken out again.
Unscale(v, sc) == IF v = None THEN None ELSE Some(v[1] \div sc)

\* C30: the labels _extract_table_like_section emits for a section text, and
\* their order, do not depend on the scale: under any two multipliers the
\* same fragments are kept, and the values differ by the ratio of the
\* multipliers only.
C30_LabelsIndependentOfScale ==
    Done("_extract_table_like_section")
        => LET a == call.result[1].first
               b == call.result[1].second
           IN  /\ Len(a) = Len(b)
               /\ \A i \in 1..Len(a) :
                     /\ a[i].item = b[i].item
                     /\ Unscale(a[i].current_period, call.arg.first)
                            = Unscale(b[i].current_period, call.arg.second)
                     /\ Unscale(a[i].previous_period, call.arg.first)
                            = Unscale(b[i].previous_period, call.arg.second)

\* What does hold: the items of the smaller scale are items of the larger
\* one, in the same order, and an item kept under both has values in the
\* ratio of the multipliers.
RECURSIVE IsSubsequence(_, _)
IsSubsequence(a, b) ==
    IF a = <<>> THEN TRUE
    ELSE IF b = <<>> THEN FALSE
    ELSE IF Head(a) = Head(b) THEN IsSubsequence(Tail(a), Tail(b))
    ELSE IsSubsequence(a, Tail(b))

Unscaled30(items, sc) ==
    [i \in 1..Len(items) |->
        [item |-> items[i].item,
         current_period |-> Unscale(items[i].current_period, sc),
         previous_period |-> Unscale(items[i].previous_period, sc)]]

C30_SmallerScaleKeepsFewer ==
    (Done("_extract_table_like_section") /\ call.arg.first <= call.arg.second)
        => IsSubsequence(Unscaled30(call.result[1].first, call.arg.first),
                         Unscaled30(call.result[1].second, call.arg.second))

\* "CASH 50" is dropped under the multiplier 1 (50 < 100 and a label of one
\* word) and kept under 1000 (50,000).
C30_KeptOnlyWhenScaled ==
    /\ Done("_extract_table_like_section")
    /\ call.arg.first = 1 /\ call.arg.second = 1000
    /\ call.result[1].first = <<>>
    /\ Len(call.result[1].second) = 1
    /\ call.result[1].second[1].item = <<"CASH">>
    /\ call.result[1].second[1].current_period = Some(50000)

====
